---- MODULE Spec2Model ----
(***************************************************************************)
(* Scheduling and layout engine of PyPlanning (planning/gantt.py).         *)
(*                                                                         *)
(* Dates are whole days counted from Monday 2024-01-01 (day 0), so that    *)
(* datetime.date.weekday() is d % 7 (0: Monday ... 6: Sunday).             *)
(* Optional values (Python None) are the integer None.                     *)
(* A call that raises is a result whose err field names the exception.     *)
(***************************************************************************)
EXTENDS Integers, Sequences, FiniteSets, TLC

VARIABLES
    NOT_WORKED_DAYS,  \* module global: set of weekdays off
    VACATIONS,        \* module global: globally excluded dates
    resources,        \* Resource objects, by name
    groups,           \* GroupOfResources objects, by name
    tasks,            \* Task / Milestone objects, by id
    projects,         \* Project objects, by id
    LOG,              \* messages of level >= WARNING emitted by the last call
    raised,           \* exception raised by the last call, "" when it returned
    files,            \* output files written so far
    drawn,            \* what the last svg that Task.svg returned holds:
                      \* the bar and the marks of a clipped begin or end
    returned          \* last call of a function that only returns a value
                      \* (_get_maxx, _time_diff, is_available): its
                      \* arguments and the value it returned

vars == <<NOT_WORKED_DAYS, VACATIONS, resources, groups, tasks, projects,
          LOG, raised, files, drawn, returned>>

-----------------------------------------------------------------------------
(* Bounds of the model *)

FirstDay == 3          \* first date inputs are drawn from (a Thursday)
LastDay == 4           \* last date inputs are drawn from (a Friday)
MaxDuration == 2       \* largest duration drawn
MaxDeps == 1           \* longest depends_on list
MaxVacations == 1      \* most vacation periods of a resource or group
ChartFirstDay == 24    \* first day of the charts at scale (2024-01-25)
MaxWeeks == 2          \* most whole weeks in a span at scale
LongDuration == 4      \* longest duration of a task with a deadline
LastCycleDay == 9      \* last resolved date a cycle is resolved on from

(* Program constants *)

None == 0 - 9999                 \* Python None
EmptyProjectStart == 2912809     \* datetime.date(9999, 1, 1)
EmptyProjectEnd == 0 - 19723     \* datetime.date(1970, 1, 1)
DefaultNotWorkedDays == {5, 6}   \* NOT_WORKED_DAYS = [5, 6]
Epoch == <<2024, 1, 1>>          \* datetime.date of day 0, a Monday

TaskIds == {1, 2}
ResourceIds == {"r1", "r2"}
GroupIds == {"g1", "g2"}
ProjectIds == 1..2
Days == FirstDay..LastDay
WeekDays == 0..6

-----------------------------------------------------------------------------
(* Calendar and availability *)

weekday(d) == d % 7

\* "date >= dfrom and date <= dto" for some period of a vacation list
\* A vacation that leaves out its last day
InVacationsButLast(vs, d) ==
    \E i \in 1..Len(vs) : d >= vs[i][1] /\ d < vs[i][2]

\* "for h in vacations: dfrom, dto = h; if date >= dfrom and date <= dto"
InVacations(vs, d) == \E i \in 1..Len(vs) : d >= vs[i][1] /\ d <= vs[i][2]

Resource_is_available(w, r, d) ==
    IF d \in w.vac THEN FALSE
    ELSE IF \E i \in 1..Len(w.res[r].member_of_groups) :
               InVacations(w.grp[w.res[r].member_of_groups[i]].vacations, d)
         THEN FALSE
    ELSE ~InVacations(w.res[r].vacations, d)

Group_is_available(w, g, d) ==
    IF d \in w.vac THEN FALSE
    ELSE IF InVacations(w.grp[g].vacations, d) THEN FALSE
    ELSE \E i \in 1..Len(w.grp[g].resources) :
             Resource_is_available(w, w.grp[g].resources[i], d)

is_available(w, x, d) ==
    IF x \in GroupIds THEN Group_is_available(w, x, d)
    ELSE Resource_is_available(w, x, d)

\* Task.non_working_day
non_working_day(w, t, d) ==
    \/ weekday(d) \in w.nwd
    \/ d \in w.vac
    \/ /\ Len(w.tasks[t].resources) = 1
       /\ ~is_available(w, w.tasks[t].resources[1], d)

\* A loop that steps over the non-working days of task t ends only if t
\* has a working day ahead: vacation periods are finite, a weekend mask of
\* seven days or a single assigned group without resources is not.
\* Otherwise the date leaves the range of datetime.date (OverflowError).
SomeWorkedDay(w, t) ==
    /\ w.nwd # WeekDays
    /\ ~ /\ Len(w.tasks[t].resources) = 1
         /\ w.tasks[t].resources[1] \in GroupIds
         /\ Len(w.grp[w.tasks[t].resources[1]].resources) = 0

\* while self.non_working_day(start): start = start + timedelta(days=1)
RECURSIVE SkipForward(_, _, _)
SkipForward(w, t, d) ==
    IF non_working_day(w, t, d) THEN SkipForward(w, t, d + 1) ELSE d

\* An end that is the stop itself, worked or not
SkipBackwardNever(w, t, d) == d

\* while self.non_working_day(real_end): real_end -= timedelta(days=1)
RECURSIVE SkipBackward(_, _, _)
SkipBackward(w, t, d) ==
    IF non_working_day(w, t, d) THEN SkipBackward(w, t, d - 1) ELSE d

\* A forward walk that spends one working day more ("duration > 0")
RECURSIVE WalkForwardOneMore(_, _, _, _)
WalkForwardOneMore(w, t, day, duration) ==
    IF duration > 0 \/ non_working_day(w, t, day)
    THEN IF ~non_working_day(w, t, day)
         THEN WalkForwardOneMore(w, t, day + 1, duration - 1)
         ELSE WalkForwardOneMore(w, t, day + 1, duration)
    ELSE day

\* while duration > 1 or self.non_working_day(current_day): ...
\* returns start_date() + real_duration
RECURSIVE WalkForward(_, _, _, _)
WalkForward(w, t, day, duration) ==
    IF duration > 1 \/ non_working_day(w, t, day)
    THEN IF ~non_working_day(w, t, day)
         THEN WalkForward(w, t, day + 1, duration - 1)
         ELSE WalkForward(w, t, day + 1, duration)
    ELSE day

\* while duration > 0: ... ; returns real_duration
RECURSIVE WalkBackward(_, _, _, _, _)
WalkBackward(w, t, day, duration, real_duration) ==
    IF duration > 0
    THEN IF ~non_working_day(w, t, day)
         THEN WalkBackward(w, t, day - 1, duration - 1, real_duration + 1)
         ELSE WalkBackward(w, t, day - 1, duration, real_duration + 1)
    ELSE real_duration

-----------------------------------------------------------------------------
(* Results of calls *)

Ok(v, T, lg) == [val |-> v, err |-> "", tasks |-> T, log |-> lg]
Raise(e, T, lg) == [val |-> None, err |-> e, tasks |-> T, log |-> lg]

\* F applied to the value of v, which is computed once
With(v, F(_)) == CHOOSE z \in {F(r) : r \in {v}} : TRUE

Warn(kind, t) == <<"warning", kind, t>>
Error(kind, t) == <<"error", kind, t>>

-----------------------------------------------------------------------------
(* Date resolution: Task.start_date, Task.end_date, Milestone.end_date.    *)
(* inS / inE are the tasks whose start_date / end_date is on the call      *)
(* stack: entering one again before its cache is set recurses for ever     *)
(* (RecursionError).                                                       *)

RECURSIVE start_date(_, _, _, _)
RECURSIVE end_date(_, _, _, _)
RECURSIVE DepScan(_, _, _, _, _, _, _, _)

\* A loop body that steps back one day from a Milestone in every branch
LoopBodyMilestoneDayBefore(mode, isM, e, prev_task_end) ==
    IF prev_task_end = None \/ e > prev_task_end
    THEN (IF isM THEN e - 1 ELSE e + 1)
    ELSE prev_task_end

\* One pass of a "for t in self.depends_on" loop of start_date: the new
\* prev_task_end, given the dependency's end date e.  mode names the branch:
\* "start" (start set), "stop" (only stop), "duration" (duration and
\* dependencies), "stop_duration" (stop and duration).
LoopBody(mode, isM, e, prev_task_end) ==
    CASE mode = "start" ->
           IF e >= prev_task_end THEN (IF isM THEN e ELSE e + 1)
           ELSE prev_task_end
      [] mode = "stop" ->
           IF prev_task_end = None THEN e
           ELSE IF e > prev_task_end THEN (IF isM THEN e - 1 ELSE e)
           ELSE prev_task_end
      [] mode = "duration" ->
           IF prev_task_end = None \/ e > prev_task_end
           THEN (IF isM THEN e - 1 ELSE e)
           ELSE prev_task_end
      [] OTHER ->
           IF prev_task_end = None THEN e
           ELSE IF e > prev_task_end THEN e
           ELSE prev_task_end

\* The "for t in self.depends_on" loops of start_date
DepScan(w, self, mode, i, prev_task_end, lg, inS, inE) ==
    LET deps == w.tasks[self].depends_on IN
    IF i > Len(deps) THEN Ok(prev_task_end, w.tasks, lg)
    ELSE With(end_date(w, deps[i], inS, inE), LAMBDA r :
           IF r.err # "" THEN Raise(r.err, r.tasks, lg \cup r.log)
           ELSE IF r.val = None THEN Raise("TypeError", r.tasks, lg \cup r.log)
           ELSE DepScan([w EXCEPT !.tasks = r.tasks], self, mode, i + 1,
                        LoopBody(mode, w.tasks[deps[i]].kind = "Milestone",
                                 r.val, prev_task_end),
                        lg \cup r.log, inS, inE))

SetStart(T, t, d) == [T EXCEPT ![t]._cache_start_date = d]
SetEnd(T, t, d) == [T EXCEPT ![t]._cache_end_date = d]

start_date(w, t, inS, inE) ==
    LET self == w.tasks[t]
        T == w.tasks
        inS2 == inS \cup {t}
    IN
    IF self._cache_start_date # None THEN Ok(self._cache_start_date, T, {})
    ELSE IF t \in inS THEN Raise("RecursionError", T, {})
    ELSE IF self.start # None THEN
        IF ~SomeWorkedDay(w, t) THEN Raise("OverflowError", T, {})
        ELSE IF self.depends_on_type = "NoneType" THEN
            With(SkipForward(w, t, self.start), LAMBDA start :
              Ok(start, SetStart(T, t, start),
                 IF start > self.start THEN {Warn("vacations_start", t)}
                 ELSE {}))
        ELSE IF self.depends_on_type # "list" THEN Raise("TypeError", T, {})
        ELSE
            With(DepScan(w, t, "start", 1, SkipForward(w, t, self.start), {},
                         inS2, inE), LAMBDA scan :
              IF scan.err # "" THEN scan
              ELSE With(SkipForward(w, t, scan.val), LAMBDA prev_task_end :
                     Ok(prev_task_end, SetStart(scan.tasks, t, prev_task_end),
                        scan.log \cup
                        (IF prev_task_end > self.start
                         THEN {Warn("dependencies_start", t)} ELSE {}))))
    ELSE IF self.duration = None THEN
        IF self.depends_on_type = "NoneType" THEN Ok(None, T, {})
        ELSE IF self.depends_on_type # "list" THEN Raise("TypeError", T, {})
        ELSE IF Len(self.depends_on) = 0 THEN Raise("IndexError", T, {})
        ELSE
            With(DepScan(w, t, "stop", 1, None, {}, inS2, inE), LAMBDA scan :
              IF scan.err # "" THEN scan
              \* prev_task_end > current_day, current_day = self.start = None
              ELSE Raise("TypeError", scan.tasks, scan.log))
    ELSE IF self.depends_on_type # "NoneType" /\ self.stop = None THEN
        IF self.depends_on_type # "list" THEN Raise("TypeError", T, {})
        ELSE
            With(DepScan(w, t, "duration", 1, None, {}, inS2, inE),
                 LAMBDA scan :
              IF scan.err # "" THEN scan
              \* no dependency in the list: "start" is never assigned
              ELSE IF scan.val = None
                   THEN Raise("UnboundLocalError", scan.tasks, scan.log)
              ELSE IF ~SomeWorkedDay(w, t)
                   THEN Raise("OverflowError", scan.tasks, scan.log)
              ELSE With(SkipForward(w, t, scan.val + 1), LAMBDA start :
                     Ok(start, SetStart(scan.tasks, t, start),
                        scan.log \cup {Warn("start_changed", t)})))
    ELSE IF self.stop # None THEN
        IF self.duration > 0 /\ ~SomeWorkedDay(w, t)
        THEN Raise("OverflowError", T, {})
        ELSE
        With(self.stop - (WalkBackward(w, t, self.stop, self.duration, 0) - 1),
             LAMBDA current_day :
          IF self.depends_on_type = "NoneType" THEN
              Ok(current_day, SetStart(T, t, current_day),
                 {Warn("start_changed", t)})
          ELSE IF self.depends_on_type # "list" THEN Raise("TypeError", T, {})
          ELSE IF Len(self.depends_on) = 0 THEN Raise("IndexError", T, {})
          ELSE
              With(DepScan(w, t, "stop_duration", 1, None, {}, inS2, inE),
                   LAMBDA scan :
                IF scan.err # "" THEN scan
                ELSE IF ~SomeWorkedDay(w, t)
                     THEN Raise("OverflowError", scan.tasks, scan.log)
                ELSE With(SkipForward(w, t,
                                      IF scan.val > current_day
                                      THEN scan.val + 1 ELSE current_day),
                          LAMBDA depend_start_date :
                       Ok(depend_start_date,
                          SetStart(scan.tasks, t, depend_start_date),
                          scan.log \cup {Warn("start_changed", t)} \cup
                          (IF depend_start_date > current_day
                           THEN {Error("not_on_time", t)} ELSE {})))))
    ELSE Ok(None, T, {})

\* Task.end_date
Task_end_date(w, t, inS, inE) ==
    LET self == w.tasks[t]
        T == w.tasks
        inE2 == inE \cup {t}
    IN
    IF self._cache_end_date # None THEN Ok(self._cache_end_date, T, {})
    ELSE IF t \in inE THEN Raise("RecursionError", T, {})
    ELSE IF (self.duration = None \/ self.start = None) /\ self.stop # None
    THEN
        IF ~SomeWorkedDay(w, t) THEN Raise("OverflowError", T, {})
        ELSE
        With(SkipBackward(w, t, self.stop), LAMBDA real_end :
          With(start_date(w, t, inS, inE2), LAMBDA sd :
            IF sd.err # "" THEN sd
            ELSE IF sd.val = None THEN Raise("TypeError", sd.tasks, sd.log)
            ELSE IF real_end <= sd.val /\ self.duration # None
                 THEN With(WalkForward(w, t, sd.val, self.duration),
                           LAMBDA slipped :
                        Ok(slipped, SetEnd(sd.tasks, t, slipped),
                           sd.log \cup {Warn("end_changed", t)}))
            ELSE Ok(real_end, SetEnd(sd.tasks, t, real_end),
                    sd.log \cup (IF real_end # self.stop
                                 THEN {Warn("end_changed", t)} ELSE {}))))
    ELSE IF self.stop = None /\ self.duration # None THEN
        With(start_date(w, t, inS, inE2), LAMBDA sd :
          IF sd.err # "" THEN sd
          \* self.non_working_day(None): None has no weekday()
          ELSE IF sd.val = None THEN Raise("AttributeError", sd.tasks, sd.log)
          ELSE IF ~SomeWorkedDay(w, t)
               THEN Raise("OverflowError", sd.tasks, sd.log)
          ELSE With(WalkForward(w, t, sd.val, self.duration), LAMBDA end :
                 Ok(end, SetEnd(sd.tasks, t, end), sd.log)))
    ELSE Raise("ValueError", T, {})

\* A Milestone without the override: Task.end_date is inherited
Milestone_end_date_inherited(w, t, inS, inE) == Task_end_date(w, t, inS, inE)

\* Milestone.end_date overrides Task.end_date
Milestone_end_date(w, t, inS, inE) == start_date(w, t, inS, inE)

\* An end_date that takes an unresolved start to be the requested start
end_date_from_requested_start(w, t, inS, inE) ==
    LET w1 == IF w.tasks[t]._cache_start_date = None
              THEN [w EXCEPT !.tasks = SetStart(w.tasks, t, w.tasks[t].start)]
              ELSE w
    IN IF w.tasks[t].kind = "Milestone" THEN Milestone_end_date(w1, t, inS, inE)
       ELSE Task_end_date(w1, t, inS, inE)

end_date(w, t, inS, inE) ==
    IF w.tasks[t].kind = "Milestone" THEN Milestone_end_date(w, t, inS, inE)
    ELSE Task_end_date(w, t, inS, inE)


-----------------------------------------------------------------------------
(* The objects as the operators above read them *)

World == [nwd |-> NOT_WORKED_DAYS, vac |-> VACATIONS, res |-> resources,
          grp |-> groups, tasks |-> tasks]

Absent == [kind |-> "absent", start |-> None, stop |-> None,
           duration |-> None, depends_on_type |-> "NoneType",
           depends_on |-> <<>>, resources |-> <<>>,
           _cache_start_date |-> None, _cache_end_date |-> None,
           drawn_x_begin_coord |-> None, drawn_x_end_coord |-> None,
           drawn_y_coord |-> None]

Exists(t) == tasks[t].kind # "absent"
Existing == {t \in TaskIds : Exists(t)}

Range(s) == {s[i] : i \in 1..Len(s)}

\* Resource.add_task / GroupOfResources.add_task for every resource of a list
RECURSIVE AddTaskTo(_, _, _, _)
AddTaskTo(objs, rs, i, t) ==
    IF i > Len(rs) THEN objs
    ELSE AddTaskTo(
           IF t \in Range(objs[rs[i]].tasks) THEN objs
           ELSE [objs EXCEPT ![rs[i]].tasks = Append(@, t)],
           rs, i + 1, t)

OnlyResources(rs) == SelectSeq(rs, LAMBDA x : x \in ResourceIds)
OnlyGroups(rs) == SelectSeq(rs, LAMBDA x : x \in GroupIds)

-----------------------------------------------------------------------------
(* Operations *)

\* Task.__init__; depends_on_type "NoneType" stands for depends_on=None
Task__init__(t, start, stop, duration, depends_on_type, depends_on, rs) ==
    /\ ~Exists(t)
    /\ \A u \in 1..(t - 1) : Exists(u)
    /\ Range(depends_on) \subseteq Existing
    /\ LET nonecount == (IF start = None THEN 1 ELSE 0)
                      + (IF stop = None THEN 1 ELSE 0)
                      + (IF duration = None THEN 1 ELSE 0)
       IN LOG' = IF nonecount # 1
                    /\ (duration = None \/ depends_on_type = "NoneType")
                 THEN {Error("two_of_three_limits", t)} ELSE {}
    /\ tasks' = [tasks EXCEPT ![t] =
                   [Absent EXCEPT !.kind = "Task", !.start = start,
                                  !.stop = stop, !.duration = duration,
                                  !.depends_on_type = depends_on_type,
                                  !.depends_on = depends_on,
                                  !.resources = rs]]
    /\ resources' = AddTaskTo(resources, OnlyResources(rs), 1, t)
    /\ groups' = AddTaskTo(groups, OnlyGroups(rs), 1, t)
    /\ raised' = ""
    /\ UNCHANGED <<returned, drawn, NOT_WORKED_DAYS, VACATIONS, projects,
                   files>>

\* Milestone.__init__
Milestone__init__(t, start, depends_on_type, depends_on) ==
    /\ ~Exists(t)
    /\ \A u \in 1..(t - 1) : Exists(u)
    /\ Range(depends_on) \subseteq Existing
    /\ tasks' = [tasks EXCEPT ![t] =
                   [Absent EXCEPT !.kind = "Milestone", !.start = start,
                                  !.stop = start, !.duration = 0,
                                  !.depends_on_type = depends_on_type,
                                  !.depends_on = depends_on]]
    /\ LOG' = {}
    /\ raised' = ""
    /\ UNCHANGED <<returned, drawn, NOT_WORKED_DAYS, VACATIONS, resources,
                   groups, projects, files>>

\* "Adapt task start date if before end of dependencies" loop of add_depends
\* i = 0 is "min_start_date = self.depends_on[0].end_date()"
RECURSIVE MinScan(_, _, _, _, _)
MinScan(w, self, i, min_start_date, lg) ==
    LET deps == w.tasks[self].depends_on IN
    IF i > Len(deps) THEN Ok(min_start_date, w.tasks, lg)
    ELSE
      With(end_date(w, deps[IF i = 0 THEN 1 ELSE i], {}, {}), LAMBDA r :
        IF r.err # "" THEN Raise(r.err, r.tasks, lg \cup r.log)
        ELSE IF i = 0
             THEN MinScan([w EXCEPT !.tasks = r.tasks], self, 1, r.val,
                          lg \cup r.log)
        ELSE IF r.val # None /\ min_start_date = None
             THEN Raise("TypeError", r.tasks, lg \cup r.log)
        ELSE MinScan([w EXCEPT !.tasks = r.tasks], self, i + 1,
                     IF r.val # None /\ r.val < min_start_date THEN r.val
                     ELSE min_start_date, lg \cup r.log))

\* "self.depends_on = depends_on", or extend/append on the list it holds
Extended(T, t, depends_on, single) ==
    IF T[t].depends_on_type = "NoneType"
    THEN [T EXCEPT ![t].depends_on = depends_on,
                   ![t].depends_on_type = IF single THEN "Task" ELSE "list"]
    ELSE [T EXCEPT ![t].depends_on = @ \o depends_on]

\* "if min_start_date is not None and (self.start is None or ...)"
Adapted(T, t, min_start_date) ==
    IF min_start_date # None
       /\ (T[t].start = None \/ T[t].start < min_start_date)
    THEN [T EXCEPT ![t].start = min_start_date]
    ELSE T

\* the body of Task.add_depends on the tasks T
Depends(T, t, depends_on, single) ==
    \* a Task held in place of a list has no extend() and no append()
    IF T[t].depends_on_type = "Task" THEN Raise("AttributeError", T, {})
    ELSE With(Extended(T, t, depends_on, single), LAMBDA T1 :
           \* len() of a Task
           IF T1[t].depends_on_type = "Task" THEN Raise("TypeError", T1, {})
           ELSE IF Len(T1[t].depends_on) = 0 THEN Ok(None, T1, {})
           ELSE With(MinScan([World EXCEPT !.tasks = T1], t, 0, None, {}),
                     LAMBDA scan :
                  IF scan.err # "" THEN scan
                  ELSE Ok(None, Adapted(scan.tasks, t, scan.val), scan.log)))

\* Task.add_depends; single = TRUE when one Task is given instead of a list
add_depends(t, depends_on, single) ==
    /\ Exists(t)
    /\ Range(depends_on) \subseteq Existing
    /\ single => Len(depends_on) = 1
    /\ \E r \in {Depends(tasks, t, depends_on, single)} :
          /\ tasks' = r.tasks
          /\ LOG' = r.log
          /\ raised' = r.err
    /\ UNCHANGED <<returned, drawn, NOT_WORKED_DAYS, VACATIONS, resources,
                   groups, projects, files>>

\* a call of Task.start_date / Milestone.start_date
Call_start_date(t) ==
    /\ Exists(t)
    /\ \E r \in {start_date(World, t, {}, {})} :
          /\ tasks' = r.tasks
          /\ LOG' = r.log
          /\ raised' = r.err
    /\ UNCHANGED <<returned, drawn, NOT_WORKED_DAYS, VACATIONS, resources,
                   groups, projects, files>>

\* a call of Task.end_date / Milestone.end_date
Call_end_date(t) ==
    /\ Exists(t)
    /\ \E r \in {end_date(World, t, {}, {})} :
          /\ tasks' = r.tasks
          /\ LOG' = r.log
          /\ raised' = r.err
    /\ UNCHANGED <<returned, drawn, NOT_WORKED_DAYS, VACATIONS, resources,
                   groups, projects, files>>

\* A reset that keeps the cached end
ResetTaskButEnd(T, t) ==
    [T EXCEPT ![t].drawn_x_begin_coord = None,
              ![t].drawn_x_end_coord = None,
              ![t].drawn_y_coord = None,
              ![t]._cache_start_date = None]

ResetTask(T, t) ==
    [T EXCEPT ![t].drawn_x_begin_coord = None,
              ![t].drawn_x_end_coord = None,
              ![t].drawn_y_coord = None,
              ![t]._cache_start_date = None,
              ![t]._cache_end_date = None]

\* Task._reset_coord
Task_reset_coord(t) ==
    /\ Exists(t)
    /\ tasks' = ResetTask(tasks, t)
    /\ LOG' = {}
    /\ raised' = ""
    /\ UNCHANGED <<returned, drawn, NOT_WORKED_DAYS, VACATIONS, resources,
                   groups, projects, files>>

\* An add_vacations that drops every cached date
add_vacations_invalidating(start, end) ==
    /\ VACATIONS' = VACATIONS \cup
                      (IF end = None THEN {start} ELSE start..end)
    /\ VACATIONS' # VACATIONS
    /\ tasks' = [t \in TaskIds |->
                   [tasks[t] EXCEPT !._cache_start_date = None,
                                    !._cache_end_date = None]]
    /\ LOG' = {}
    /\ raised' = ""
    /\ UNCHANGED <<returned, drawn, NOT_WORKED_DAYS, resources, groups,
                   projects, files>>

\* add_vacations(start_date, end_date); end_date = None for a single day
add_vacations(start, end) ==
    /\ VACATIONS' = VACATIONS \cup
                      (IF end = None THEN {start} ELSE start..end)
    /\ VACATIONS' # VACATIONS
    /\ LOG' = {}
    /\ raised' = ""
    /\ UNCHANGED <<returned, drawn, NOT_WORKED_DAYS, resources, groups, tasks,
                   projects, files>>

\* define_not_worked_days(list_of_days)
define_not_worked_days(list_of_days) ==
    /\ NOT_WORKED_DAYS' = list_of_days
    /\ NOT_WORKED_DAYS' # NOT_WORKED_DAYS
    /\ LOG' = {}
    /\ raised' = ""
    /\ UNCHANGED <<returned, drawn, VACATIONS, resources, groups, tasks,
                   projects, files>>

\* Resource.add_vacations(dfrom, dto); dto = None for a single day
Resource_add_vacations(r, dfrom, dto) ==
    /\ resources' = [resources EXCEPT ![r].vacations =
                       Append(@, <<dfrom, IF dto = None THEN dfrom ELSE dto>>)]
    /\ LOG' = {}
    /\ raised' = ""
    /\ UNCHANGED <<returned, drawn, NOT_WORKED_DAYS, VACATIONS, groups, tasks,
                   projects, files>>

\* GroupOfResources.add_vacations(dfrom, dto)
Group_add_vacations(g, dfrom, dto) ==
    /\ groups' = [groups EXCEPT ![g].vacations =
                    Append(@, <<dfrom, IF dto = None THEN dfrom ELSE dto>>)]
    /\ LOG' = {}
    /\ raised' = ""
    /\ UNCHANGED <<returned, drawn, NOT_WORKED_DAYS, VACATIONS, resources,
                   tasks, projects, files>>

\* GroupOfResources.add_resource, with Resource.add_group
Group_add_resource(g, r) ==
    /\ r \notin Range(groups[g].resources)
    /\ groups' = [groups EXCEPT ![g].resources = Append(@, r)]
    /\ resources' = IF g \in Range(resources[r].member_of_groups)
                    THEN resources
                    ELSE [resources EXCEPT ![r].member_of_groups = Append(@, g)]
    /\ LOG' = {}
    /\ raised' = ""
    /\ UNCHANGED <<returned, drawn, NOT_WORKED_DAYS, VACATIONS, tasks,
                   projects, files>>

-----------------------------------------------------------------------------
(* Resource conflict detection.  The returned dictionary is the field map: *)
(* a function from the reported dates to the list of the tasks of the day. *)

Found(m, T, lg) == [val |-> None, err |-> "", tasks |-> T, log |-> lg,
                    map |-> m]
Failed(r, lg) == [val |-> None, err |-> r.err, tasks |-> r.tasks,
                  log |-> lg, map |-> <<>>]

\* one list per date: m1[d] followed by m2[d]
Merge(m1, m2) ==
    [d \in DOMAIN m1 \cup DOMAIN m2 |->
       (IF d \in DOMAIN m1 THEN m1[d] ELSE <<>>) \o
       (IF d \in DOMAIN m2 THEN m2[d] ELSE <<>>)]

\* "for t in self.tasks: cday = t.start_date(); while cday <= t.end_date()"
RECURSIVE AffectedDays(_, _, _, _, _)
AffectedDays(w, ts, i, affected_days, lg) ==
    IF i > Len(ts) THEN Found(affected_days, w.tasks, lg)
    ELSE
      With(start_date(w, ts[i], {}, {}), LAMBDA rs :
        IF rs.err # "" THEN Failed(rs, lg \cup rs.log) ELSE
        With(end_date([w EXCEPT !.tasks = rs.tasks], ts[i], {}, {}),
             LAMBDA re :
          IF re.err # "" THEN Failed(re, lg \cup rs.log \cup re.log)
          ELSE IF rs.val = None
          THEN Failed(Raise("TypeError", re.tasks, {}),
                      lg \cup rs.log \cup re.log)
          ELSE AffectedDays([w EXCEPT !.tasks = re.tasks], ts, i + 1,
                 Merge(affected_days,
                       [d \in {c \in rs.val..re.val : weekday(c) \notin w.nwd}
                          |-> <<ts[i]>>]),
                 lg \cup rs.log \cup re.log)))

Restrict(m, ds) == [d \in ds |-> m[d]]

\* The dates that hold nb tasks or more
OverOrAt(m, nb) == {d \in DOMAIN m : Len(m[d]) >= nb}

\* the dates of affected_days that hold more than nb tasks
Over(m, nb) == {d \in DOMAIN m : Len(m[d]) > nb}

\* Resource.search_for_task_conflicts
Resource_search_for_task_conflicts(w, r, all_tasks) ==
    With(AffectedDays(w, w.res[r].tasks, 1, <<>>, {}), LAMBDA a :
      IF a.err # "" \/ all_tasks THEN a
      ELSE Found(Restrict(a.map, Over(a.map, 1)), a.tasks,
                 a.log \cup {Warn("resource_overcharge", d) :
                               d \in Over(a.map, 1)}))

\* "for r in self.resources: ad = r.search_for_task_conflicts(all_tasks=True)"
RECURSIVE MembersAffectedDays(_, _, _, _, _)
MembersAffectedDays(w, g, i, affected_days, lg) ==
    IF i > Len(w.grp[g].resources) THEN Found(affected_days, w.tasks, lg)
    ELSE
      With(Resource_search_for_task_conflicts(w, w.grp[g].resources[i], TRUE),
           LAMBDA ad :
        IF ad.err # "" THEN Failed(ad, lg \cup ad.log)
        ELSE MembersAffectedDays([w EXCEPT !.tasks = ad.tasks], g, i + 1,
                                 Merge(affected_days, ad.map),
                                 lg \cup ad.log))

\* GroupOfResources.search_for_task_conflicts
Group_search_for_task_conflicts(w, g, all_tasks) ==
    With(MembersAffectedDays(w, g, 1, <<>>, {}), LAMBDA m :
      IF m.err # "" THEN m ELSE
      With(AffectedDays([w EXCEPT !.tasks = m.tasks], w.grp[g].tasks, 1,
                        m.map, m.log), LAMBDA a :
        IF a.err # "" \/ all_tasks THEN a
        ELSE Found(Restrict(a.map, Over(a.map, Len(w.grp[g].resources))),
                   a.tasks,
                   a.log \cup {Warn("group_overcharge", d) :
                                 d \in Over(a.map, Len(w.grp[g].resources))})))

search_for_task_conflicts(w, x, all_tasks) ==
    IF x \in GroupIds THEN Group_search_for_task_conflicts(w, x, all_tasks)
    ELSE Resource_search_for_task_conflicts(w, x, all_tasks)

-----------------------------------------------------------------------------
(* Projects.  A child of a project is <<"T", t>> (Task or Milestone) or    *)
(* <<"P", q>> (sub-project).  Results carry the tasks as left by the call. *)

IsTask(c) == c[1] = "T"

RECURSIVE Project_start_date(_, _, _)
RECURSIVE Project_end_date(_, _, _)

Child_start_date(w, P, c) ==
    IF IsTask(c) THEN start_date(w, c[2], {}, {})
    ELSE Project_start_date(w, P, c[2])

Child_end_date(w, P, c) ==
    IF IsTask(c) THEN end_date(w, c[2], {}, {})
    ELSE Project_end_date(w, P, c[2])

\* first = tasks[0].start_date(); for t in tasks: if t.start_date() < first
RECURSIVE MinStart(_, _, _, _, _, _)
MinStart(w, P, p, i, first, lg) ==
    IF i > Len(P[p].tasks) THEN Ok(first, w.tasks, lg)
    ELSE With(Child_start_date(w, P, P[p].tasks[i]), LAMBDA r :
           IF r.err # "" THEN Raise(r.err, r.tasks, lg \cup r.log)
           ELSE IF r.val = None THEN Raise("TypeError", r.tasks, lg \cup r.log)
           ELSE MinStart([w EXCEPT !.tasks = r.tasks], P, p, i + 1,
                         IF first = None \/ r.val < first THEN r.val
                         ELSE first, lg \cup r.log))

\* last = tasks[0].end_date(); for t in tasks: if t.end_date() > last
RECURSIVE MaxEnd(_, _, _, _, _, _)
MaxEnd(w, P, p, i, last, lg) ==
    IF i > Len(P[p].tasks) THEN Ok(last, w.tasks, lg)
    ELSE With(Child_end_date(w, P, P[p].tasks[i]), LAMBDA r :
           IF r.err # "" THEN Raise(r.err, r.tasks, lg \cup r.log)
           ELSE IF r.val = None THEN Raise("TypeError", r.tasks, lg \cup r.log)
           ELSE MaxEnd([w EXCEPT !.tasks = r.tasks], P, p, i + 1,
                       IF last = None \/ r.val > last THEN r.val ELSE last,
                       lg \cup r.log))

Project_start_date(w, P, p) ==
    IF Len(P[p].tasks) = 0
    THEN Ok(EmptyProjectStart, w.tasks, {Warn("empty_project", p)})
    ELSE MinStart(w, P, p, 1, None, {})

Project_end_date(w, P, p) ==
    IF Len(P[p].tasks) = 0
    THEN Ok(EmptyProjectEnd, w.tasks, {Warn("empty_project", p)})
    ELSE MaxEnd(w, P, p, 1, None, {})

\* Project._reset_coord on the tasks: t._reset_coord() for every child
RECURSIVE ResetTree(_, _, _, _)
ResetTree(T, P, p, i) ==
    IF i > Len(P[p].tasks) THEN T
    ELSE LET c == P[p].tasks[i]
         IN ResetTree(IF IsTask(c) THEN ResetTask(T, c[2])
                      ELSE ResetTree(T, P, c[2], 1),
                      P, p, i + 1)

\* the projects of the tree under p, p included
RECURSIVE SubProjects(_, _)
SubProjects(P, p) ==
    {p} \cup UNION {SubProjects(P, c[2]) :
                      c \in {d \in Range(P[p].tasks) : ~IsTask(d)}}

\* the Task/Milestone objects of the tree under p (Project.get_tasks)
TreeTasks(P, p) ==
    {c[2] : c \in {d \in UNION {Range(P[q].tasks) : q \in SubProjects(P, p)} :
                     IsTask(d)}}

\* Project.nb_elements; val is the number returned, projects the projects
\* with the counts the call has cached
RECURSIVE Project_nb_elements(_, _)
RECURSIVE SumElements(_, _, _, _)

\* "for t in self.tasks: nb += t.nb_elements()", Task.nb_elements being 1
SumElements(P, p, i, nb) ==
    IF i > Len(P[p].tasks) THEN [val |-> nb, projects |-> P]
    ELSE IF IsTask(P[p].tasks[i]) THEN SumElements(P, p, i + 1, nb + 1)
    ELSE With(Project_nb_elements(P, P[p].tasks[i][2]), LAMBDA r :
           SumElements(r.projects, p, i + 1, nb + r.val))

Project_nb_elements(P, p) ==
    IF P[p].cache_nb_elements # None
    THEN [val |-> P[p].cache_nb_elements, projects |-> P]
    ELSE With(SumElements(P, p, 1, 0), LAMBDA r :
           [val |-> r.val,
            projects |-> [r.projects EXCEPT ![p].cache_nb_elements = r.val]])

\* Project._reset_coord on the projects: cache_nb_elements = None
ResetCounts(P, p) ==
    [q \in DOMAIN P |-> IF q \in SubProjects(P, p)
                        THEN [P[q] EXCEPT !.cache_nb_elements = None]
                        ELSE P[q]]

-----------------------------------------------------------------------------
(* Layout pass (tu_width = 1, default options).  val is the number of lines *)
(* drawn.                                                                  *)

DRAW_WITH_DAILY_SCALE == "d"
DRAW_WITH_WEEKLY_SCALE == "w"
DRAW_WITH_MONTHLY_SCALE == "m"
DRAW_WITH_QUATERLY_SCALE == "q"

\* calendar.monthrange(y, m)[1]
monthrange(y, m) ==
    IF m = 2
    THEN (IF y % 4 = 0 /\ (y % 100 # 0 \/ y % 400 = 0) THEN 29 ELSE 28)
    ELSE IF m \in {4, 6, 9, 11} THEN 30 ELSE 31

\* datetime.date of the day number d (d >= 0) as <<year, month, day>>,
\* counted from <<y, m, 1>>
RECURSIVE FromOrdinal(_, _, _)
FromOrdinal(y, m, d) ==
    IF d < monthrange(y, m) THEN <<y, m, d + 1>>
    ELSE FromOrdinal(IF m = 12 THEN y + 1 ELSE y, IF m = 12 THEN 1 ELSE m + 1,
                     d - monthrange(y, m))

Date(d) == FromOrdinal(Epoch[1], Epoch[2], d)

\* the day number of the date <<y, m, day>>
RECURSIVE ToOrdinal(_, _, _)
ToOrdinal(y, m, day) ==
    IF y = Epoch[1] /\ m = Epoch[2] THEN day - 1
    ELSE With(IF m = 1 THEN <<y - 1, 12>> ELSE <<y, m - 1>>, LAMBDA prev :
           monthrange(prev[1], prev[2]) + ToOrdinal(prev[1], prev[2], day))

\* date + relativedelta(months=n): the day is clipped to the month's length
AddMonths(date, n) ==
    With(date[1] * 12 + (date[2] - 1) + n, LAMBDA total :
      With(<<total \div 12, (total % 12) + 1>>, LAMBDA ym :
        <<ym[1], ym[2],
          IF date[3] > monthrange(ym[1], ym[2])
          THEN monthrange(ym[1], ym[2]) ELSE date[3]>>))

\* the "while compare(dt1, dtm)" loop of relativedelta(dt1, dt2): months is
\* stepped towards zero until dt2 + months does not pass dt1
RECURSIVE WholeMonths(_, _, _)
WholeMonths(dt1, dt2, months) ==
    With(AddMonths(Date(dt2), months), LAMBDA dtm :
      With(ToOrdinal(dtm[1], dtm[2], dtm[3]), LAMBDA day :
        IF dt1 >= dt2 /\ dt1 < day THEN WholeMonths(dt1, dt2, months - 1)
        ELSE IF dt1 < dt2 /\ dt1 > day THEN WholeMonths(dt1, dt2, months + 1)
        ELSE <<months, dt1 - day>>))

\* relativedelta(dt1, dt2) as <<years * 12 + months, days>>
relativedelta(dt1, dt2) ==
    WholeMonths(dt1, dt2,
                (Date(dt1)[1] - Date(dt2)[1]) * 12
                + (Date(dt1)[2] - Date(dt2)[2]))

\* "while guess.weekday() != 0: guess = guess + relativedelta(days=-1)"
RECURSIVE BackToMonday(_)
BackToMonday(guess) ==
    IF weekday(guess) # 0 THEN BackToMonday(guess - 1) ELSE guess

\* "while end_date.weekday() != 6: end_date = end_date + relativedelta(days=+1)"
RECURSIVE OnToSunday(_)
OnToSunday(end) ==
    IF weekday(end) # 6 THEN OnToSunday(end + 1) ELSE end

\* _get_maxx: "while guess <= end_date: maxx += 1; guess += 1 week"
RECURSIVE WeeksThrough(_, _, _)
WeeksThrough(guess, end, maxx) ==
    IF guess <= end THEN WeeksThrough(guess + 7, end, maxx + 1)
    ELSE maxx

\* A count of weeks that also takes the week ending on end_date
RECURSIVE WeeksBeforeOrAt(_, _, _)
WeeksBeforeOrAt(guess, end, td) ==
    IF guess + 6 <= end
    THEN WeeksBeforeOrAt(guess + 7, end, td + 1)
    ELSE td

\* _time_diff: "while guess + relativedelta(days=+6) < end_date: td += 1;
\* guess += 1 week"
RECURSIVE WeeksBefore(_, _, _)
WeeksBefore(guess, end, td) ==
    IF guess + 6 < end THEN WeeksBefore(guess + 7, end, td + 1)
    ELSE td

\* _get_maxx(scale, start_date, end_date)
_get_maxx(scale, start, end) ==
    IF scale = DRAW_WITH_DAILY_SCALE THEN end - start
    ELSE IF scale = DRAW_WITH_WEEKLY_SCALE
    THEN WeeksThrough(BackToMonday(start), OnToSunday(end), 0) - 1
    ELSE With(relativedelta(end + 1, start), LAMBDA delta :
           delta[1] - 1 + (IF delta[2] > 0 THEN 1 ELSE 0))

\* _time_diff(scale, start_date, end_date, duration) with milestone=False and
\* tu_fraction=False
_time_diff(scale, start, end, duration) ==
    IF scale = DRAW_WITH_DAILY_SCALE THEN end - start
    ELSE IF scale = DRAW_WITH_WEEKLY_SCALE
    THEN WeeksBefore(BackToMonday(start),
                     IF duration THEN BackToMonday(end)
                     ELSE OnToSunday(end), 0)
    ELSE relativedelta(end,
                       IF duration THEN start
                       ELSE With(Date(start), LAMBDA sd :
                              ToOrdinal(sd[1], sd[2], 1)))[1]

Place(T, t, x, d, y) ==
    [T EXCEPT ![t].drawn_x_begin_coord = x,
              ![t].drawn_x_end_coord = x + d,
              ![t].drawn_y_coord = y]

\* the bar of Task.svg for the resolved dates s and e
Task_bar(T, t, y, start, end, scale, s, e, lg) ==
    IF s >= start /\ e <= end
    THEN Ok(1, Place(T, t, _time_diff(scale, start, s, FALSE),
                     _time_diff(scale, s, e, TRUE) + 1, y), lg)
    ELSE IF s > end THEN Ok(0, T, lg)
    ELSE IF e < start THEN Ok(0, T, lg)
    ELSE IF s < start /\ e <= end
         THEN Ok(1, Place(T, t, 0, _time_diff(scale, start, e, TRUE) + 1, y),
                 lg)
    ELSE IF s >= start /\ e > end
         THEN Ok(1, Place(T, t, _time_diff(scale, start, s, FALSE),
                          _time_diff(scale, s, end, TRUE) + 1, y), lg)
    ELSE Ok(1, Place(T, t, 0, _time_diff(scale, start, end, TRUE) + 1, y), lg)

\* An svg without the marks of a clipped bar
Task_primitives_unmarked(start, end, s, e) ==
    IF s > end \/ e < start THEN {} ELSE {"bar"}

\* what the svg of Task.svg holds for the resolved dates s and e: the bar
\* and, from add_begin_mark and add_end_mark, the marks of a clipped bar
Task_primitives(start, end, s, e) ==
    IF s >= start /\ e <= end THEN {"bar"}
    ELSE IF s > end THEN {}
    ELSE IF e < start THEN {}
    ELSE IF s < start /\ e <= end THEN {"bar", "begin_mark"}
    ELSE IF s >= start /\ e > end THEN {"bar", "end_mark"}
    ELSE {"bar", "begin_mark", "end_mark"}

\* Task.svg
Task_svg(w, t, y, start, end, scale) ==
    LET self == w.tasks[t] IN
    IF scale = DRAW_WITH_QUATERLY_SCALE
    THEN Raise("ValueError", w.tasks, {<<"critical", "quaterly_scale", t>>})
    ELSE
    With(IF self.start # None THEN start_date(w, t, {}, {})
         ELSE Ok(None, w.tasks, {}), LAMBDA r1 :
      IF r1.err # "" THEN r1 ELSE
      With(IF self.stop # None
           THEN end_date([w EXCEPT !.tasks = r1.tasks], t, {}, {})
           ELSE Ok(None, r1.tasks, {}), LAMBDA r2 :
        IF r2.err # "" THEN Raise(r2.err, r2.tasks, r1.log \cup r2.log) ELSE
        With(start_date([w EXCEPT !.tasks = r2.tasks], t, {}, {}), LAMBDA rs :
          IF rs.err # ""
          THEN Raise(rs.err, rs.tasks, r1.log \cup r2.log \cup rs.log)
          ELSE IF rs.val = None
          THEN Raise("TypeError", rs.tasks, r1.log \cup r2.log \cup rs.log)
          ELSE
          With(end_date([w EXCEPT !.tasks = rs.tasks], t, {}, {}), LAMBDA re :
            IF re.err # ""
            THEN Raise(re.err, re.tasks,
                       r1.log \cup r2.log \cup rs.log \cup re.log)
            ELSE Task_bar(re.tasks, t, y, start, end, scale, rs.val, re.val,
                          r1.log \cup r2.log \cup rs.log \cup re.log)))))

\* Milestone.svg
Milestone_svg(w, t, y, start, end) ==
    With(start_date(w, t, {}, {}), LAMBDA rs :
      IF rs.err # "" THEN rs
      ELSE IF rs.val = None THEN Raise("TypeError", rs.tasks, rs.log)
      ELSE IF rs.val >= start /\ rs.val <= end
           THEN Ok(1, Place(rs.tasks, t,
                            _time_diff(DRAW_WITH_DAILY_SCALE, start, rs.val,
                                       FALSE), 0, y),
                   rs.log)
      ELSE Ok(0, rs.tasks, rs.log))

\* Project.get_resources / Task.get_resources / Milestone.get_resources,
\* as the set of the resources returned
RECURSIVE get_resources(_, _, _)
get_resources(T, P, c) ==
    IF IsTask(c)
    THEN (IF T[c[2]].kind = "Milestone" THEN {} ELSE Range(T[c[2]].resources))
    ELSE UNION {get_resources(T, P, P[c[2]].tasks[i]) :
                  i \in 1..Len(P[c[2]].tasks)}

VacationsOf(w, x) ==
    IF x \in GroupIds THEN w.grp[x].vacations ELSE w.res[x].vacations

\* The "show_leaves" loop of Project.svg for the child c: what it resolves.
\* For a Task child it calls start_date() then end_date() as Task.svg does
\* right after; the leave bars are Task objects local to the call.
Leaves(w, P, c) ==
    LET vs == UNION {Range(VacationsOf(w, x)) :
                       x \in get_resources(w.tasks, P, c)}
    IN IF IsTask(c) \/ vs = {} THEN Ok(None, w.tasks, {})
       ELSE With(Child_start_date(w, P, c), LAMBDA rs :
         IF rs.err # "" THEN rs
         ELSE IF \A v \in vs : v[1] < rs.val /\ v[2] < rs.val THEN rs
         ELSE With(Child_end_date([w EXCEPT !.tasks = rs.tasks], P, c),
                   LAMBDA re :
                IF re.err # ""
                THEN Raise(re.err, re.tasks, rs.log \cup re.log)
                ELSE Ok(None, re.tasks, rs.log \cup re.log)))

RECURSIVE Project_svg(_, _, _, _, _, _, _)
RECURSIVE SvgChildren(_, _, _, _, _, _, _, _, _)

\* one child of "for t in self.tasks" of Project.svg: t.svg(...)
Child_svg(w, P, c, cy, start, end, level) ==
    IF IsTask(c)
    THEN (IF w.tasks[c[2]].kind = "Milestone"
          THEN Milestone_svg(w, c[2], cy, start, end)
          ELSE Task_svg(w, c[2], cy, start, end, DRAW_WITH_DAILY_SCALE))
    ELSE Project_svg(w, P, c[2], cy, start, end, level + 1)

\* "for t in self.tasks" of Project.svg; val is cy
SvgChildren(w, P, p, i, cy, start, end, level, lg) ==
    IF i > Len(P[p].tasks) THEN Ok(cy, w.tasks, lg)
    ELSE
      With(Leaves(w, P, P[p].tasks[i]), LAMBDA lv :
        IF lv.err # "" THEN Raise(lv.err, lv.tasks, lg \cup lv.log)
        ELSE With(Child_svg([w EXCEPT !.tasks = lv.tasks], P, P[p].tasks[i],
                            cy, start, end, level), LAMBDA r :
               IF r.err # ""
               THEN Raise(r.err, r.tasks, lg \cup lv.log \cup r.log)
               ELSE With([w EXCEPT !.tasks = r.tasks], LAMBDA w2 :
                      SvgChildren(w2, P, p, i + 1, cy + r.val, start, end,
                                  level, lg \cup lv.log \cup r.log))))

\* the height of Project.svg for a named project whose children end at cy0
Project_height(prev_y, cy0, prj_bar) ==
    LET cy == IF prj_bar THEN cy0 ELSE cy0 - 1
    IN IF cy - prev_y = 0 \/ (cy - prev_y = 1 /\ prj_bar) THEN 0
       ELSE cy - prev_y

\* Project.svg
Project_svg(w, P, p, prev_y, start, end, level) ==
    LET named == P[p].name # "" IN
    With(SvgChildren(w, P, p, 1, prev_y + (IF named THEN 1 ELSE 0),
                     start, end, level, {}), LAMBDA ch :
      IF ch.err # "" THEN ch
      ELSE IF ~named
           THEN Ok(IF ch.val - prev_y = 0 THEN 0 ELSE ch.val - prev_y,
                   ch.tasks, ch.log)
      ELSE
      \* start <= self.start_date() <= end or start <= self.end_date() <= end
      \*  or self.start_date() <= start <= end <= self.end_date()
      With(Project_start_date([w EXCEPT !.tasks = ch.tasks], P, p), LAMBDA ps :
        IF ps.err # "" THEN Raise(ps.err, ps.tasks, ch.log \cup ps.log)
        ELSE IF start <= ps.val /\ ps.val <= end
             THEN Ok(Project_height(prev_y, ch.val, TRUE), ps.tasks,
                     ch.log \cup ps.log)
        ELSE
        With(Project_end_date([w EXCEPT !.tasks = ps.tasks], P, p), LAMBDA pe :
          IF pe.err # ""
          THEN Raise(pe.err, pe.tasks, ch.log \cup ps.log \cup pe.log)
          ELSE Ok(Project_height(prev_y, ch.val,
                                 \/ start <= pe.val /\ pe.val <= end
                                 \/ ps.val <= start /\ start <= end
                                                    /\ end <= pe.val
                                 \/ level = 1),
                  pe.tasks, ch.log \cup ps.log \cup pe.log))))

-----------------------------------------------------------------------------
(* Operations on resources and projects *)

\* a call of Resource/GroupOfResources.search_for_task_conflicts(all_tasks)
Call_search_for_task_conflicts(x, all_tasks) ==
    /\ \E r \in {search_for_task_conflicts(World, x, all_tasks)} :
          /\ tasks' = r.tasks
          /\ LOG' = r.log
          /\ raised' = r.err
    /\ UNCHANGED <<returned, drawn, NOT_WORKED_DAYS, VACATIONS, resources,
                   groups, projects, files>>

\* Project.add_task; a sub-project is added to a project created before it
Project_add_task(p, c) ==
    /\ IF IsTask(c) THEN Exists(c[2]) ELSE c[2] \in ProjectIds /\ c[2] > p
    /\ projects' = [projects EXCEPT ![p].tasks = Append(@, c),
                                    ![p].cache_nb_elements = None]
    /\ LOG' = {}
    /\ raised' = ""
    /\ UNCHANGED <<returned, drawn, NOT_WORKED_DAYS, VACATIONS, resources,
                   groups, tasks, files>>

\* Project._reset_coord
Project_reset_coord(p) ==
    /\ tasks' = ResetTree(tasks, projects, p, 1)
    /\ projects' = ResetCounts(projects, p)
    /\ LOG' = {}
    /\ raised' = ""
    /\ UNCHANGED <<returned, drawn, NOT_WORKED_DAYS, VACATIONS, resources,
                   groups, files>>

\* a call of Project.nb_elements()
Call_nb_elements(p) ==
    /\ \E r \in {Project_nb_elements(projects, p)} :
          /\ projects' = r.projects
          /\ returned' = [function |-> "nb_elements", args |-> <<p>>,
                          val |-> r.val]
    /\ LOG' = {}
    /\ raised' = ""
    /\ UNCHANGED <<drawn, NOT_WORKED_DAYS, VACATIONS, resources, groups,
                   tasks, files>>

\* Python's True and False as the integers they are equal to
bool(b) == IF b THEN 1 ELSE 0

\* a call of Resource.is_available(date)
Call_is_available(r, date) ==
    /\ returned' = [function |-> "is_available", args |-> <<r, date>>,
                    val |-> bool(Resource_is_available(World, r, date))]
    /\ LOG' = {}
    /\ raised' = ""
    /\ UNCHANGED <<drawn, NOT_WORKED_DAYS, VACATIONS, resources, groups,
                   tasks, projects, files>>

\* a call of _get_maxx(scale, start_date, end_date)
Call_get_maxx(scale, start, end) ==
    /\ IF scale = DRAW_WITH_QUATERLY_SCALE
       THEN /\ raised' = "ValueError"
            /\ LOG' = {<<"critical", "quaterly_scale", "_get_maxx">>}
            /\ UNCHANGED returned
       ELSE /\ raised' = ""
            /\ LOG' = {}
            /\ returned' = [function |-> "_get_maxx",
                            args |-> <<scale, start, end>>,
                            val |-> _get_maxx(scale, start, end)]
    /\ UNCHANGED <<drawn, NOT_WORKED_DAYS, VACATIONS, resources, groups,
                   tasks, projects, files>>

\* a call of _time_diff(scale, start_date, end_date, duration)
Call_time_diff(scale, start, end, duration) ==
    /\ IF scale = DRAW_WITH_QUATERLY_SCALE
       THEN /\ raised' = "ValueError"
            /\ UNCHANGED returned
       ELSE /\ raised' = ""
            /\ returned' = [function |-> "_time_diff",
                            args |-> <<scale, start, end, duration>>,
                            val |-> _time_diff(scale, start, end, duration)]
    /\ LOG' = {}
    /\ UNCHANGED <<drawn, NOT_WORKED_DAYS, VACATIONS, resources, groups,
                   tasks, projects, files>>

\* a call of Task.svg(prev_y=0, start=start, end=end, scale=scale); the
\* value returned is (svg, height)
Call_svg(t, start, end, scale) ==
    /\ Exists(t)
    /\ tasks[t].kind = "Task"
    /\ \E r \in {Task_svg(World, t, 0, start, end, scale)} :
          /\ tasks' = r.tasks
          /\ LOG' = r.log
          /\ raised' = r.err
          /\ IF r.err # "" THEN UNCHANGED <<returned, drawn>>
             ELSE /\ returned' = [function |-> "svg",
                                  args |-> <<t, start, end, scale>>,
                                  val |-> r.val]
                  /\ drawn' = Task_primitives(start, end,
                                             r.tasks[t]._cache_start_date,
                                             r.tasks[t]._cache_end_date)
    /\ UNCHANGED <<NOT_WORKED_DAYS, VACATIONS, resources, groups, projects,
                   files>>

\* Project.svg_dependencies: "for t in self.depends_on" of every task drawn
svg_dependencies(T, P, p) ==
    IF \E t \in TreeTasks(P, p) : T[t].depends_on_type = "Task"
    THEN "TypeError" ELSE ""

\* The window of a chart: start_date = self.start_date() if start is None
\* else start, and the same for the end.  val is <<start_date, end_date>>.
Window(w, P, p, start, end) ==
    With(IF start = None THEN Project_start_date(w, P, p)
         ELSE Ok(start, w.tasks, {}), LAMBDA sd :
      IF sd.err # "" THEN sd ELSE
      With(IF end = None
           THEN Project_end_date([w EXCEPT !.tasks = sd.tasks], P, p)
           ELSE Ok(end, sd.tasks, {}), LAMBDA ed :
        IF ed.err # "" THEN Raise(ed.err, ed.tasks, sd.log \cup ed.log)
        ELSE IF sd.val > ed.val
             THEN Raise("ValueError", ed.tasks,
                        sd.log \cup ed.log
                        \cup {<<"critical", "start_after_end", p>>})
        ELSE Ok(<<sd.val, ed.val>>, ed.tasks, sd.log \cup ed.log)))

\* the body of make_svg_for_tasks after self._reset_coord(); the file is
\* written by the dwg.save that ends it
Draw_tasks(w, P, p, start, end) ==
    With(Window(w, P, p, start, end), LAMBDA win :
      IF win.err # "" THEN win ELSE
      With(Project_svg([w EXCEPT !.tasks = win.tasks], P, p, 2,
                       win.val[1], win.val[2], 0), LAMBDA svg :
        IF svg.err # "" THEN Raise(svg.err, svg.tasks, win.log \cup svg.log)
        ELSE IF svg_dependencies(svg.tasks, P, p) # ""
             THEN Raise(svg_dependencies(svg.tasks, P, p), svg.tasks,
                        win.log \cup svg.log)
        ELSE Ok(None, svg.tasks, win.log \cup svg.log)))

\* Project.make_svg_for_tasks(filename, start=start, end=end)
make_svg_for_tasks(p, filename, start, end) ==
    /\ IF Len(projects[p].tasks) = 0
       THEN /\ LOG' = {Warn("empty_project", p)}
            /\ raised' = ""
            /\ UNCHANGED <<tasks, projects, files>>
       ELSE \E P \in {ResetCounts(projects, p)} :
            \E w \in {[World EXCEPT
                         !.tasks = ResetTree(tasks, projects, p, 1)]} :
            \E r \in {Draw_tasks(w, P, p, start, end)} :
               /\ tasks' = r.tasks
               /\ projects' = P
               /\ LOG' = r.log
               /\ raised' = r.err
               /\ files' = IF r.err = "" THEN files \cup {filename} ELSE files
    /\ UNCHANGED <<returned, drawn, NOT_WORKED_DAYS, VACATIONS, resources,
                   groups>>

\* a sequence without its repeated elements (first occurrences kept)
RECURSIVE Dedupe(_, _, _)
Dedupe(xs, i, acc) ==
    IF i > Len(xs) THEN acc
    ELSE Dedupe(xs, i + 1,
                IF xs[i] \in Range(acc) THEN acc ELSE Append(acc, xs[i]))

\* Project.get_tasks before the removal of duplicates
RECURSIVE TaskList(_, _, _)
TaskList(P, p, i) ==
    IF i > Len(P[p].tasks) THEN <<>>
    ELSE LET c == P[p].tasks[i]
         IN (IF IsTask(c) THEN <<c[2]>> ELSE TaskList(P, c[2], 1))
            \o TaskList(P, p, i + 1)

get_tasks(P, p) == Dedupe(TaskList(P, p, 1), 1, <<>>)

\* Project.get_resources, in the order of the returned list
RECURSIVE ResourceList(_, _)
ResourceList(T, ts) ==
    IF ts = <<>> THEN <<>>
    ELSE (IF T[Head(ts)].kind = "Milestone" THEN <<>>
          ELSE T[Head(ts)].resources) \o ResourceList(T, Tail(ts))

Project_get_resources(T, P, p) ==
    Dedupe(ResourceList(T, TaskList(P, p, 1)), 1, <<>>)

\* Task.check_conflicts_between_task_and_resources_vacations for the tasks
\* of a list (Milestone: returns [] at once)
RECURSIVE CheckVacations(_, _, _, _)
CheckVacations(w, ts, i, lg) ==
    IF i > Len(ts) THEN Ok(None, w.tasks, lg)
    ELSE
      LET t == ts[i]
          self == w.tasks[t]
      IN IF self.kind = "Milestone" \/ Len(self.resources) = 0
         THEN CheckVacations(w, ts, i + 1, lg)
         ELSE
         With(start_date(w, t, {}, {}), LAMBDA rs :
           IF rs.err # "" THEN Raise(rs.err, rs.tasks, lg \cup rs.log) ELSE
           With(end_date([w EXCEPT !.tasks = rs.tasks], t, {}, {}), LAMBDA re :
             IF re.err # ""
             THEN Raise(re.err, re.tasks, lg \cup rs.log \cup re.log)
             ELSE IF rs.val = None
             THEN Raise("TypeError", re.tasks, lg \cup rs.log \cup re.log)
             ELSE With([w EXCEPT !.tasks = re.tasks], LAMBDA w2 :
                    CheckVacations(w2, ts, i + 1,
                      lg \cup rs.log \cup re.log \cup
                      (IF \E k \in 1..Len(self.resources) :
                            \E d \in rs.val..re.val :
                               /\ weekday(d) \notin w.nwd
                               /\ ~is_available(w, self.resources[k], d)
                       THEN {Warn("vacation_conflict", t)} ELSE {})))))

\* "for t in self.get_tasks()" for the resource r of make_svg_for_resources,
\* with one_line_for_tasks = False; val is nline, nb counts nb_tasks
RECURSIVE ResourceTasks(_, _, _, _, _, _, _, _, _)
ResourceTasks(w, ts, i, r, nline, nb, start, end, lg) ==
    IF i > Len(ts) THEN Ok(IF nb = 0 THEN nline - 1 ELSE nline, w.tasks, lg)
    ELSE
      LET t == ts[i]
          self == w.tasks[t]
      IN IF self.kind = "Milestone" \/ r \notin Range(self.resources)
         THEN ResourceTasks(w, ts, i + 1, r, nline, nb, start, end, lg)
         ELSE
         With(start_date(w, t, {}, {}), LAMBDA rs :
           IF rs.err # "" THEN Raise(rs.err, rs.tasks, lg \cup rs.log)
           ELSE IF rs.val = None
           THEN Raise("TypeError", rs.tasks, lg \cup rs.log)
           ELSE
           \* t.start_date() <= end_date and start_date <= t.end_date()
           With(IF rs.val <= end
                THEN end_date([w EXCEPT !.tasks = rs.tasks], t, {}, {})
                ELSE Ok(None, rs.tasks, {}), LAMBDA re :
             IF re.err # ""
             THEN Raise(re.err, re.tasks, lg \cup rs.log \cup re.log)
             ELSE
             With(Task_svg([w EXCEPT !.tasks = re.tasks], t, nline, start,
                           end, DRAW_WITH_DAILY_SCALE), LAMBDA svg :
               IF svg.err # ""
               THEN Raise(svg.err, svg.tasks,
                          lg \cup rs.log \cup re.log \cup svg.log)
               ELSE With([w EXCEPT !.tasks = svg.tasks], LAMBDA w2 :
                      ResourceTasks(w2, ts, i + 1, r, nline + svg.val,
                        nb + (IF rs.val <= end /\ start <= re.val
                              THEN 1 ELSE 0),
                        start, end,
                        lg \cup rs.log \cup re.log \cup svg.log)))))

\* "for r in resources" of make_svg_for_resources; val is nline
RECURSIVE ResourceLanes(_, _, _, _, _, _, _, _)
ResourceLanes(w, ts, rl, i, nline, start, end, lg) ==
    IF i > Len(rl) THEN Ok(nline, w.tasks, lg)
    ELSE
      With(search_for_task_conflicts(w, rl[i], FALSE), LAMBDA over :
        IF over.err # "" THEN Raise(over.err, over.tasks, lg \cup over.log)
        ELSE
        With(ResourceTasks([w EXCEPT !.tasks = over.tasks], ts, 1, rl[i],
                           nline + 1, 0, start, end, {}), LAMBDA lane :
          IF lane.err # ""
          THEN Raise(lane.err, lane.tasks, lg \cup over.log \cup lane.log)
          ELSE With([w EXCEPT !.tasks = lane.tasks], LAMBDA w2 :
                 ResourceLanes(w2, ts, rl, i + 1, lane.val, start, end,
                               lg \cup over.log \cup lane.log))))

\* the result of a call with the "written" flag of the file
Written(r, written) ==
    [val |-> r.val, err |-> r.err, tasks |-> r.tasks, log |-> r.log,
     written |-> written]

\* the body of make_svg_for_resources after self._reset_coord(); no file is
\* written when the project has no resource ("return {}")
Draw_resources(w, P, p, start, end) ==
    With(Window(w, P, p, start, end), LAMBDA win :
      IF win.err # "" THEN Written(win, FALSE)
      ELSE IF Len(Project_get_resources(win.tasks, P, p)) = 0
           THEN Written(Ok(None, win.tasks, win.log), FALSE)
      ELSE
      With(CheckVacations([w EXCEPT !.tasks = win.tasks], get_tasks(P, p), 1,
                          win.log), LAMBDA cv :
        IF cv.err # "" THEN Written(cv, FALSE) ELSE
        With(ResourceLanes([w EXCEPT !.tasks = cv.tasks], get_tasks(P, p),
                           Project_get_resources(win.tasks, P, p), 1, 2,
                           win.val[1], win.val[2], cv.log), LAMBDA lanes :
          Written(lanes, lanes.err = ""))))

\* Project.make_svg_for_resources(filename, start=start, end=end), with the
\* resources of the project and the default options
make_svg_for_resources(p, filename, start, end) ==
    /\ IF Len(projects[p].tasks) = 0
       THEN /\ LOG' = {Warn("empty_project", p)}
            /\ raised' = ""
            /\ UNCHANGED <<tasks, projects, files>>
       ELSE \E P \in {ResetCounts(projects, p)} :
            \E w \in {[World EXCEPT
                         !.tasks = ResetTree(tasks, projects, p, 1)]} :
            \E r \in {Draw_resources(w, P, p, start, end)} :
               /\ tasks' = r.tasks
               /\ projects' = P
               /\ LOG' = r.log
               /\ raised' = r.err
               /\ files' = IF r.written THEN files \cup {filename} ELSE files
    /\ UNCHANGED <<returned, drawn, NOT_WORKED_DAYS, VACATIONS, resources,
                   groups>>

-----------------------------------------------------------------------------
(* State after import of the module and construction of the resources,     *)
(* the group and the (empty) projects                                      *)

Init ==
    /\ NOT_WORKED_DAYS = DefaultNotWorkedDays
    /\ VACATIONS = {}
    /\ resources = [r \in ResourceIds |->
                      [vacations |-> <<>>, member_of_groups |-> <<>>,
                       tasks |-> <<>>]]
    /\ groups = [g \in GroupIds |->
                   [vacations |-> <<>>, resources |-> <<>>, tasks |-> <<>>]]
    /\ tasks = [t \in TaskIds |-> Absent]
    /\ projects = [p \in ProjectIds |->
                     [name |-> IF p = 1 THEN "" ELSE "sub",
                      tasks |-> <<>>, cache_nb_elements |-> None]]
    /\ LOG = {}
    /\ raised = ""
    /\ files = {}
    /\ drawn = {}
    /\ returned = [function |-> "", args |-> <<>>, val |-> None]

-----------------------------------------------------------------------------
(* Inputs *)

OptDays == {None} \cup Days
Durations == 0..MaxDuration
OptDurations == {None} \cup Durations
Masks == {DefaultNotWorkedDays, {6}}
OptLists(S) == {<<"NoneType", <<>>>>, <<"list", <<>>>>}
                 \cup {<<"list", <<u>>>> : u \in S}

-----------------------------------------------------------------------------
(* Scheduling with dependencies: task 1 is a well-defined Task or a        *)
(* Milestone, task 2 is any Task or Milestone and may depend on task 1.    *)

NewDependency ==
    \/ \E start \in Days, duration \in Durations :
          Task__init__(1, start, None, duration, "NoneType", <<>>, <<>>)
    \/ \E start \in OptDays : Milestone__init__(1, start, "NoneType", <<>>)

NewDependent ==
    \E deps \in OptLists({1}) :
        \/ \E start \in OptDays, stop \in OptDays, duration \in OptDurations :
              Task__init__(2, start, stop, duration, deps[1], deps[2], <<>>)
        \/ \E start \in OptDays : Milestone__init__(2, start, deps[1], deps[2])

AddDepends ==
    /\ Len(tasks[2].depends_on) < MaxDeps
    /\ add_depends(2, <<1>>, FALSE)

\* add_depends(task) with one Task in place of a list
AddDependsSingle ==
    /\ Len(tasks[2].depends_on) < MaxDeps
    /\ add_depends(2, <<1>>, TRUE)

Resolve ==
    \E t \in TaskIds : Call_start_date(t) \/ Call_end_date(t)

Reset == \E t \in TaskIds : Task_reset_coord(t)

Exclude == \E d \in Days : add_vacations(d, None)

Next ==
    \/ NewDependency
    \/ NewDependent
    \/ AddDepends
    \/ AddDependsSingle
    \/ Resolve
    \/ Reset
    \/ Exclude

Spec == Init /\ [][Next]_vars

-----------------------------------------------------------------------------
(* Scheduling under a changing calendar: task 1 has a start, task 2 only a  *)
(* duration until it is made to follow task 1; excluded dates, the weekend mask   *)
(* and the vacations of resource r1 change at any time.                    *)

Staffing == {<<>>, <<"r1">>, <<"r1", "r2">>}

NewStaffed ==
    \/ \E start \in Days, duration \in Durations, rs \in Staffing :
          Task__init__(1, start, None, duration, "NoneType", <<>>, rs)
    \/ \E start \in Days : Milestone__init__(1, start, "NoneType", <<>>)
    \/ Task__init__(2, None, None, MaxDuration, "NoneType", <<>>, <<>>)

Weekend == \E list_of_days \in Masks : define_not_worked_days(list_of_days)

Leave ==
    /\ Len(resources["r1"].vacations) < MaxVacations
    /\ \E dfrom \in Days : Resource_add_vacations("r1", dfrom, None)

NextCalendar ==
    \/ NewStaffed
    \/ AddDepends
    \/ Resolve
    \/ Reset
    \/ Exclude
    \/ Weekend
    \/ Leave

SpecCalendar == Init /\ [][NextCalendar]_vars

-----------------------------------------------------------------------------
(* Workload of resources: both tasks are assigned to resource r1 or to the *)
(* group g1, which r1 may join.                                            *)

Assignments == {<<"r1">>, <<"g1">>}

NewAssigned ==
    \E t \in TaskIds, start \in Days, duration \in Durations,
       rs \in Assignments :
        Task__init__(t, start, None, duration, "NoneType", <<>>, rs)

Join == Group_add_resource("g1", "r1")

Search ==
    \E x \in {"r1", "g1"}, all_tasks \in BOOLEAN :
        Call_search_for_task_conflicts(x, all_tasks)

NextConflicts ==
    \/ NewAssigned
    \/ Join
    \/ Exclude
    \/ Weekend
    \/ Reset
    \/ Search

SpecConflicts == Init /\ [][NextConflicts]_vars

-----------------------------------------------------------------------------
(* Charts: project 1 is the chart's root, holding task 1 and sub-project   *)
(* 2, which holds task 2; task 2 may follow task 1.                        *)

NewCharted ==
    \/ \E start \in Days :
          Task__init__(1, start, None, MaxDuration, "NoneType", <<>>, <<"r1">>)
    \/ \E start \in OptDays :
          Task__init__(2, start, None, 1, "NoneType", <<>>, <<>>)

AddChild ==
    \E p \in ProjectIds :
        \E c \in {<<"T", p>>, <<"P", p + 1>>} :
            /\ c \notin Range(projects[p].tasks)
            /\ Project_add_task(p, c)

ResetChart == \E p \in ProjectIds : Project_reset_coord(p)

\* the windows asked for: none, an end before the start, and a whole one
Windows == {<<None, None>>, <<None, FirstDay>>, <<LastDay, FirstDay>>,
            <<FirstDay, LastDay>>}

Render ==
    \E p \in ProjectIds, win \in Windows :
        \/ make_svg_for_tasks(p, "tasks.svg", win[1], win[2])
        \/ make_svg_for_resources(p, "resources.svg", win[1], win[2])

NextCharts ==
    \/ NewCharted
    \/ AddDepends
    \/ AddChild
    \/ Exclude
    \/ ResetChart
    \/ Render

SpecCharts == Init /\ [][NextCharts]_vars

-----------------------------------------------------------------------------
(* Deadlines: task 2 has a stop and a duration of some days and may follow *)
(* task 1, a task of one day of the same week; dates are excluded at any   *)
(* time.                                                                   *)

DeadlineDays == (LastDay - LongDuration + 1)..LastDay

NewPredecessor ==
    \E start \in DeadlineDays :
       Task__init__(1, start, None, 1, "NoneType", <<>>, <<>>)

NewDeadline ==
    \E stop \in DeadlineDays, duration \in 1..LongDuration,
       deps \in {<<"NoneType", <<>>>>, <<"list", <<1>>>>} :
       Task__init__(2, None, stop, duration, deps[1], deps[2], <<>>)

NextDeadlines ==
    \/ NewPredecessor
    \/ NewDeadline
    \/ Resolve
    \/ Reset
    \/ Exclude

SpecDeadlines == Init /\ [][NextDeadlines]_vars

-----------------------------------------------------------------------------
(* Counts: the tasks are added to project 1 and to its sub-project 2 while *)
(* the projects are asked for their number of elements.                    *)

Count == \E p \in ProjectIds : Call_nb_elements(p)

NextCounts ==
    \/ NewCharted
    \/ AddChild
    \/ Count
    \/ ResetChart

SpecCounts == Init /\ [][NextCounts]_vars

-----------------------------------------------------------------------------
(* Cycles: as with dependencies, but each task may be made to follow the   *)
(* other one or itself.  Two tasks that follow each other and are reset    *)
(* one at a time resolve later at every turn: the dates are resolved no    *)
(* further once a resolved date is past LastCycleDay.                      *)

Link ==
    \E t \in TaskIds, u \in TaskIds :
       /\ Len(tasks[t].depends_on) < MaxDeps
       /\ add_depends(t, <<u>>, FALSE)

ResolveCycle ==
    /\ \A t \in TaskIds : /\ tasks[t]._cache_start_date <= LastCycleDay
                          /\ tasks[t]._cache_end_date <= LastCycleDay
    /\ Resolve

NextCycles ==
    \/ NewDependency
    \/ NewDependent
    \/ Link
    \/ ResolveCycle
    \/ Reset

SpecCycles == Init /\ [][NextCycles]_vars

-----------------------------------------------------------------------------
(* Layout passes under a fixed calendar: the same charts, whose tasks are   *)
(* made anew between the passes.                                           *)

NextPasses ==
    \/ NewCharted
    \/ AddDepends
    \/ AddChild
    \/ ResetChart
    \/ Render

SpecPasses == Init /\ [][NextPasses]_vars

-----------------------------------------------------------------------------
(* Scales: _get_maxx and _time_diff are called at every scale on every     *)
(* span of a few weeks from the end of January 2024.                       *)

ChartDays == ChartFirstDay..(ChartFirstDay + 6 + 7 * MaxWeeks)
\* the spans of at most MaxWeeks weeks that start in the first week
Spans == {<<start, start + length>> :
            start \in ChartFirstDay..(ChartFirstDay + 6),
            length \in 0..(7 * MaxWeeks)}
Scales == {DRAW_WITH_DAILY_SCALE, DRAW_WITH_WEEKLY_SCALE,
           DRAW_WITH_MONTHLY_SCALE, DRAW_WITH_QUATERLY_SCALE}

GetMaxx == \E span \in Spans, scale \in Scales :
              Call_get_maxx(scale, span[1], span[2])

TimeDiff == \E span \in Spans, scale \in Scales, duration \in BOOLEAN :
               Call_time_diff(scale, span[1], span[2], duration)

NextScales == GetMaxx \/ TimeDiff

SpecScales == Init /\ [][NextScales]_vars

-----------------------------------------------------------------------------
(* Bars: task 1, which starts in the last week of January 2024 or on the   *)
(* first of February, is drawn alone, at every scale, in windows of the    *)
(* same weeks.                                                             *)

BarDays == ChartFirstDay..(ChartFirstDay + 7)

NewScaled ==
    \E start \in BarDays, duration \in Durations :
       Task__init__(1, start, None, duration, "NoneType", <<>>, <<>>)

\* the windows of the charts: a day, two days, a week and a day, and the
\* longest span and a day, from every day of a week
Frames == {<<start, start + length>> :
             start \in ChartFirstDay..(ChartFirstDay + 6),
             length \in {0, 1, 7, 7 * MaxWeeks}}

Draw ==
    \E win \in Frames, scale \in Scales : Call_svg(1, win[1], win[2], scale)

NextBars == NewScaled \/ Draw

SpecBars == Init /\ [][NextBars]_vars

-----------------------------------------------------------------------------
(* Availability: resource r1 joins the groups g1 and g2 in any order;      *)
(* dates are excluded and vacations are given to r1 and to the groups in   *)
(* any order; r1 is asked for its availability around these days.          *)

Periods == Days \X OptDays
QueryDays == (FirstDay - 1)..(LastDay + 1)

ExcludeRange == \E dfrom \in Days, dto \in OptDays : add_vacations(dfrom, dto)

LeaveFor ==
    /\ Len(resources["r1"].vacations) < MaxVacations
    /\ \E v \in Periods : Resource_add_vacations("r1", v[1], v[2])

GroupLeave ==
    \E g \in GroupIds :
       /\ Len(groups[g].vacations) < MaxVacations
       /\ \E v \in Periods : Group_add_vacations(g, v[1], v[2])

JoinGroup == \E g \in GroupIds : Group_add_resource(g, "r1")

IsAvailable == \E date \in QueryDays : Call_is_available("r1", date)

NextAvailability ==
    ExcludeRange \/ LeaveFor \/ GroupLeave \/ JoinGroup \/ IsAvailable

SpecAvailability == Init /\ [][NextAvailability]_vars

-----------------------------------------------------------------------------
(* Staffing: task 1 is any Task without dependencies, with no resource,    *)
(* with r1 or with r1 and r2; r1 and its groups take vacations.            *)

NewTeam ==
    \E start \in OptDays, stop \in OptDays, duration \in OptDurations,
       rs \in Staffing :
       Task__init__(1, start, stop, duration, "NoneType", <<>>, rs)

ResolveTeam == Call_start_date(1) \/ Call_end_date(1)

ResetTeam == Task_reset_coord(1)

NextStaffing ==
    NewTeam \/ LeaveFor \/ GroupLeave \/ JoinGroup \/ ResolveTeam \/ ResetTeam

SpecStaffing == Init /\ [][NextStaffing]_vars

-----------------------------------------------------------------------------
(* Properties of date resolution with dependencies *)

Unresolved ==
    \A t \in TaskIds : /\ tasks[t]._cache_start_date = None
                       /\ tasks[t]._cache_end_date = None

DependsOn(a, b) ==
    tasks[a].depends_on_type = "list" /\ b \in Range(tasks[a].depends_on)

\* the date end_date() has stored for task t in T
EndOf(T, t) ==
    IF T[t].kind = "Milestone" THEN T[t]._cache_start_date
    ELSE T[t]._cache_end_date

Inputs(x) == <<x.kind, x.start, x.stop, x.duration, x.depends_on_type,
               x.depends_on, x.resources>>

InputsUnchanged ==
    /\ UNCHANGED <<returned, drawn, NOT_WORKED_DAYS, VACATIONS, resources,
                   groups>>
    /\ \A t \in TaskIds : Inputs(tasks'[t]) = Inputs(tasks[t])

\* start and end of task t as a resolution from cleared caches gives them
FreshDates(t) ==
    LET w0 == [World EXCEPT !.tasks = [u \in TaskIds |-> ResetTask(tasks, u)[u]]]
        r1 == start_date(w0, t, {}, {})
        r2 == end_date([w0 EXCEPT !.tasks = r1.tasks], t, {}, {})
    IN <<r2.tasks[t]._cache_start_date, r2.tasks[t]._cache_end_date>>

\* every date the caches T hold is the date the current inputs resolve to
CleanCaches(T) ==
    \A t \in Existing :
        LET fresh == FreshDates(t)
        IN /\ T[t]._cache_start_date \in {None, fresh[1]}
           /\ T[t]._cache_end_date \in {None, fresh[2]}

Clean == CleanCaches(tasks)

\* C2: when a task A that depends on a Task B (not a Milestone) is resolved
\* from cleared caches, start_date(A) is strictly later than end_date(B).
C2_StartAfterTaskDependency ==
    [][\A a, b \in TaskIds :
         (/\ Unresolved
          /\ DependsOn(a, b)
          /\ tasks[b].kind = "Task"
          /\ tasks'[a]._cache_start_date # None)
         => tasks'[a]._cache_start_date > EndOf(tasks', b)]_vars

\* C3: when a task A that depends on a Milestone M is resolved from cleared
\* caches, start_date(A) is on or after end_date(M).
C3_StartNotBeforeMilestone ==
    [][\A a, b \in TaskIds :
         (/\ Unresolved
          /\ DependsOn(a, b)
          /\ tasks[b].kind = "Milestone"
          /\ tasks'[a]._cache_start_date # None)
         => /\ EndOf(tasks', b) # None
            /\ tasks'[a]._cache_start_date >= EndOf(tasks', b)]_vars

\* a task resolved to start on the very day of the Milestone it depends on
C3_Witness ==
    /\ DependsOn(2, 1)
    /\ tasks[1].kind = "Milestone"
    /\ tasks[2].kind = "Task"
    /\ tasks[2]._cache_start_date # None
    /\ tasks[2]._cache_start_date = tasks[1]._cache_start_date
    /\ Clean

\* C4: in every reachable state, end_date() of a Milestone returns what
\* start_date() returns: the same date, or the same failure.
C4_MilestoneEndIsStart ==
    \A t \in Existing :
        tasks[t].kind = "Milestone" =>
            LET e == end_date(World, t, {}, {})
                s == start_date([World EXCEPT !.tasks = e.tasks], t, {}, {})
            IN e.err = s.err /\ e.val = s.val

\* a resolved Milestone with a dependency, moved off its requested date,
\* after an excluded date was added
C4_Witness ==
    /\ tasks[2].kind = "Milestone"
    /\ DependsOn(2, 1)
    /\ VACATIONS # {}
    /\ tasks[2]._cache_start_date # None
    /\ tasks[2]._cache_start_date # tasks[2].start
    /\ end_date(World, 2, {}, {}).val = tasks[2]._cache_start_date

\* C6: as long as inputs and calendar are unchanged, resolving and resetting
\* tasks in any order only ever stores the dates the inputs resolve to: a
\* reset followed by a new resolution reproduces the dates.
C6_RoundTrip ==
    [][(Clean /\ InputsUnchanged) => CleanCaches(tasks')]_vars

\* both tasks resolved, the second after the first it depends on
C6_Witness ==
    /\ DependsOn(2, 1)
    /\ \A t \in TaskIds : /\ tasks[t].kind = "Task"
                          /\ tasks[t]._cache_start_date # None
                          /\ tasks[t]._cache_end_date # None
    /\ tasks[2]._cache_start_date > tasks[2].start
    /\ VACATIONS # {}
    /\ Clean

\* the later of two optional dates
Later(a, b) ==
    IF a = None THEN b ELSE IF b = None THEN a ELSE IF a > b THEN a ELSE b

\* C13: add_depends(x), where x is one Task or Milestone or a list of them,
\* returns with depends_on a list made of every previous dependency and of
\* every given one, and with start = max(previous start, minimum end_date()
\* of the dependencies); start is never earlier than it was.
C13_AddDependsMergesAndAdapts ==
    [][\A single \in BOOLEAN :
         add_depends(2, <<1>>, single)
         => /\ raised' = ""
            /\ tasks'[2].depends_on_type = "list"
            /\ tasks'[2].depends_on = tasks[2].depends_on \o <<1>>
            /\ tasks'[2].start = Later(tasks[2].start, EndOf(tasks', 1))
            /\ tasks[2].start # None
                  => tasks'[2].start >= tasks[2].start]_vars

\* the number of the limits start, stop and duration that are set
LimitsSet(start, stop, duration) ==
    (IF start # None THEN 1 ELSE 0) + (IF stop # None THEN 1 ELSE 0)
    + (IF duration # None THEN 1 ELSE 0)

\* C14: the construction of a Task never raises, and it logs an error
\* exactly when neither exactly two of start, stop and duration are set nor
\* duration is set together with a non-empty list of dependencies.
C14_ErrorIffIllDefined ==
    [][\A start \in OptDays, stop \in OptDays, duration \in OptDurations,
          deps \in OptLists({1}) :
         Task__init__(2, start, stop, duration, deps[1], deps[2], <<>>)
         => /\ raised' = ""
            /\ (\E msg \in LOG' : msg[1] = "error")
               <=> /\ LimitsSet(start, stop, duration) # 2
                   /\ ~(duration # None /\ deps[2] # <<>>)]_vars

\* task b is a Task with a duration and no stop to which add_depends has
\* given the resolvable task a as its dependency
DurationThenDependency(b, a) ==
    /\ tasks[b].kind = "Task"
    /\ tasks[b].stop = None
    /\ tasks[b].duration # None
    /\ tasks[b].depends_on_type # "NoneType"
    /\ tasks[b].depends_on = <<a>>
    /\ tasks[a].start # None
    /\ Clean

\* C15: a Task created with a duration only is well defined once
\* add_depends has given it a resolvable dependency: start_date() and
\* end_date() return dates and raise nothing, and start_date() is after the
\* end of the dependency (not before it when the dependency is a Milestone).
C15_ValidOnceDependent ==
    [][(/\ DurationThenDependency(2, 1)
        /\ Call_start_date(2) \/ Call_end_date(2))
       => /\ raised' = ""
          /\ tasks'[2]._cache_start_date # None
          /\ tasks'[2]._cache_start_date
                >= FreshDates(1)[2] + (IF tasks[1].kind = "Task" THEN 1 ELSE 0)
          /\ Call_end_date(2) => tasks'[2]._cache_end_date # None]_vars

\* task t has a stop and neither start nor duration, and no dependency or
\* a list of dependencies that resolve
StopOnly(t) ==
    /\ tasks[t].kind = "Task"
    /\ tasks[t].start = None /\ tasks[t].duration = None
    /\ tasks[t].stop # None
    /\ \/ tasks[t].depends_on_type = "NoneType"
       \/ /\ tasks[t].depends_on_type = "list"
          /\ Len(tasks[t].depends_on) > 0
          /\ \A d \in Range(tasks[t].depends_on) :
                FreshDates(d)[IF tasks[d].kind = "Milestone" THEN 1 ELSE 2]
                   # None

\* what the dependency d gives to the bound of its dependents with a stop
DependencyBound(d) ==
    IF tasks[d].kind = "Milestone" THEN FreshDates(d)[1] - 1
    ELSE FreshDates(d)[2]

\* C20: start_date() of a task with a stop and neither start nor duration
\* raises nothing and returns a date that is no non-working day; when the
\* latest bound of its dependencies is later than stop, the date is the day
\* after that bound, advanced over non-working days, and an error is logged.
C20_StopOnlyStart ==
    [][(StopOnly(2) /\ Call_start_date(2))
       => /\ raised' = ""
          /\ tasks'[2]._cache_start_date # None
          /\ ~non_working_day(World, 2, tasks'[2]._cache_start_date)
          /\ (DependsOn(2, 1) /\ DependencyBound(1) > tasks[2].stop)
             => /\ tasks'[2]._cache_start_date
                   = SkipForward(World, 2, DependencyBound(1) + 1)
                /\ \E e \in LOG' : e[1] = "error" /\ e[3] = 2]_vars

\* C16: in every state a Milestone is in, after its construction and any
\* calls of add_depends, start_date, end_date and _reset_coord, its duration
\* is 0, its stop is its start and get_resources() gives no resource.
C16_MilestoneShape ==
    \A t \in Existing :
       tasks[t].kind = "Milestone"
       => /\ tasks[t].duration = 0
          /\ tasks[t].stop = tasks[t].start
          /\ get_resources(tasks, projects, <<"T", t>>) = {}

-----------------------------------------------------------------------------
(* Properties of date resolution under a changing calendar *)

\* a Task with start and duration set, stop unset and no dependencies
StartDuration(t) ==
    /\ tasks[t].kind = "Task"
    /\ tasks[t].start # None
    /\ tasks[t].duration # None
    /\ tasks[t].stop = None
    /\ tasks[t].depends_on = <<>>

\* number of days of a..b on which Task.non_working_day is false
WorkingDays(w, t, a, b) == Cardinality({d \in a..b : ~non_working_day(w, t, d)})

PostWorld == [nwd |-> NOT_WORKED_DAYS', vac |-> VACATIONS', res |-> resources',
              grp |-> groups', tasks |-> tasks']

\* the step resolves start and end of task t from cleared caches
FreshlyResolved(t) ==
    /\ tasks[t]._cache_start_date = None
    /\ tasks[t]._cache_end_date = None
    /\ tasks'[t]._cache_start_date # None
    /\ tasks'[t]._cache_end_date # None

\* C1 as stated: after resolution of a start+duration task, the inclusive
\* range [start_date(), end_date()] holds exactly duration working days,
\* for every duration.
C1_SpanHoldsDuration ==
    [][\A t \in TaskIds :
         (StartDuration(t) /\ FreshlyResolved(t))
         => WorkingDays(PostWorld, t, tasks'[t]._cache_start_date,
                        tasks'[t]._cache_end_date) = tasks[t].duration]_vars

\* C1 amended: the same for every duration of at least one day.
C1_SpanHoldsPositiveDuration ==
    [][\A t \in TaskIds :
         (StartDuration(t) /\ FreshlyResolved(t) /\ tasks[t].duration >= 1)
         => WorkingDays(PostWorld, t, tasks'[t]._cache_start_date,
                        tasks'[t]._cache_end_date) = tasks[t].duration]_vars

\* a resolved start+duration task of one resource whose span runs over a
\* weekend and over a day that is an excluded date or a vacation day
C1_Witness ==
    /\ StartDuration(1)
    /\ tasks[1].resources = <<"r1">>
    /\ tasks[1].duration = MaxDuration
    /\ tasks[1]._cache_start_date # None
    /\ tasks[1]._cache_end_date # None
    /\ CleanCaches(tasks)
    /\ \E d \in tasks[1]._cache_start_date..tasks[1]._cache_end_date :
          d \in VACATIONS \/ InVacations(resources["r1"].vacations, d)
    /\ \E d \in tasks[1]._cache_start_date..tasks[1]._cache_end_date :
          weekday(d) \in NOT_WORKED_DAYS

\* C5: a date that start_date() or end_date() of a task has returned is what
\* every later call returns, whatever step is taken (new excluded dates,
\* vacations, weekend mask, add_depends), until _reset_coord of that task.
C5_CachedUntilReset ==
    [][\A t \in TaskIds :
         \/ Task_reset_coord(t)
         \/ /\ tasks[t]._cache_start_date # None
               => LET r == start_date(PostWorld, t, {}, {})
                  IN r.err = "" /\ r.val = tasks[t]._cache_start_date
            /\ EndOf(tasks, t) # None
               => LET r == end_date(PostWorld, t, {}, {})
                  IN r.err = "" /\ r.val = EndOf(tasks, t)]_vars

\* a task resolved before it was given a dependency and before the calendar
\* changed: its cached dates are no longer what its inputs resolve to
C5_Witness ==
    /\ DependsOn(2, 1)
    /\ VACATIONS # {}
    /\ resources["r1"].vacations # <<>>
    /\ NOT_WORKED_DAYS # DefaultNotWorkedDays
    /\ tasks[2]._cache_start_date # None
    /\ tasks[2]._cache_end_date # None
    /\ tasks[1]._cache_end_date # None
    /\ ~CleanCaches(tasks)

\* C8: when a working day inside the resolved span of a start+duration task
\* of at least one day is added to the excluded dates, the resolution after
\* a reset gives a later end_date(), a span that still holds duration
\* working days, and logs a warning about the task.
C8_ExcludedDateInSpan ==
    [][\A t \in TaskIds :
         (/\ StartDuration(t)
          /\ tasks[t].duration >= 1
          /\ tasks[t]._cache_start_date # None
          /\ tasks[t]._cache_end_date # None
          /\ CleanCaches(tasks)
          /\ \E d \in tasks[t]._cache_start_date..tasks[t]._cache_end_date :
                /\ VACATIONS' = VACATIONS \cup {d}
                /\ ~non_working_day(World, t, d))
         => LET w0 == [PostWorld EXCEPT !.tasks = ResetTask(tasks', t)]
                r == end_date(w0, t, {}, {})
            IN /\ r.err = ""
               /\ r.val > tasks[t]._cache_end_date
               /\ WorkingDays(w0, t, r.tasks[t]._cache_start_date, r.val)
                    = tasks[t].duration
               /\ \E m \in r.log : m[1] = "warning" /\ m[3] = t]_vars

-----------------------------------------------------------------------------
(* Properties of conflict detection *)

\* C7: search_for_task_conflicts, on a Resource or a GroupOfResources, with
\* all_tasks true or false, reports no date whose weekday is a non-working
\* weekday and no globally excluded date.
C7_NoConflictOnNonWorkingDay ==
    \A x \in {"r1", "g1"}, all_tasks \in BOOLEAN :
        LET r == search_for_task_conflicts(World, x, all_tasks)
        IN r.err = "" =>
             \A d \in DOMAIN r.map : /\ weekday(d) \notin NOT_WORKED_DAYS
                                     /\ d \notin VACATIONS

\* the tasks of the list ts, by their place in it, whose resolved span
\* [start_date(), end_date()] in T holds the day d
Claims(T, ts, d) ==
    {i \in 1..Len(ts) : /\ T[ts[i]]._cache_start_date <= d
                        /\ d <= T[ts[i]]._cache_end_date}

\* the days of the resolved spans of the tasks, non-working weekdays left out
SpanDays(T) ==
    {d \in UNION {T[t]._cache_start_date..T[t]._cache_end_date :
                    t \in {u \in Existing : T[u]._cache_start_date # None}} :
       weekday(d) \notin NOT_WORKED_DAYS}

\* the claims on day d of the tasks of the members of group g, a claim
\* being <<place of the member, place of the task>>
MemberClaims(T, g, d) ==
    UNION {{<<k, i>> : i \in Claims(T, resources[groups[g].resources[k]].tasks,
                                    d)} : k \in 1..Len(groups[g].resources)}

\* C19: Resource.search_for_task_conflicts(all_tasks=False) returns exactly
\* the dates, non-working weekdays left out, that lie in the resolved span
\* [start_date(), end_date()] of more than one task of the resource, each
\* with the tasks that claim it; GroupOfResources.search_for_task_conflicts
\* reports a date exactly when the claims on it, of the tasks of its members
\* and of its own tasks, are more than its members.
C19_OverchargedDays ==
    /\ LET r == search_for_task_conflicts(World, "r1", FALSE)
       IN r.err = "" =>
            /\ DOMAIN r.map
                  = {d \in SpanDays(r.tasks) :
                       Cardinality(Claims(r.tasks, resources["r1"].tasks, d))
                          > 1}
            /\ \A d \in DOMAIN r.map :
                  Range(r.map[d])
                     = {resources["r1"].tasks[i] :
                          i \in Claims(r.tasks, resources["r1"].tasks, d)}
    /\ LET r == search_for_task_conflicts(World, "g1", FALSE)
       IN r.err = "" =>
            DOMAIN r.map
               = {d \in SpanDays(r.tasks) :
                    Cardinality(MemberClaims(r.tasks, "g1", d))
                    + Cardinality(Claims(r.tasks, groups["g1"].tasks, d))
                       > Len(groups["g1"].resources)}

\* a search has just found the group g1, of the single member r1,
\* overcharged by a task of r1 and a task of its own
C19_Witness ==
    /\ raised = ""
    /\ \E d \in Days : Warn("group_overcharge", d) \in LOG
    /\ groups["g1"].resources = <<"r1">>
    /\ Len(resources["r1"].tasks) = 1
    /\ Len(groups["g1"].tasks) = 1

-----------------------------------------------------------------------------
(* Properties of the charts *)

\* the window of the chart of p is reversed: each bound is the one asked for
\* or, without one, the date of the project after its _reset_coord
ReversedWindow(p, win) ==
    \E w \in {[World EXCEPT !.tasks = ResetTree(tasks, projects, p, 1)]} :
    \E sd \in {IF win[1] = None THEN Project_start_date(w, projects, p)
               ELSE Ok(win[1], w.tasks, {})} :
       /\ sd.err = ""
       /\ sd.val # None
       /\ \E ed \in {IF win[2] = None
                     THEN Project_end_date([w EXCEPT !.tasks = sd.tasks],
                                           projects, p)
                     ELSE Ok(win[2], sd.tasks, {})} :
             /\ ed.err = ""
             /\ ed.val # None
             /\ sd.val > ed.val

\* C9: make_svg_for_tasks or make_svg_for_resources, without a window, of a
\* project whose tree holds no task (no child, or only empty sub-projects)
\* logs a warning, writes no file and raises nothing.
C9_EmptyTreeRender ==
    [][\A p \in ProjectIds :
         (/\ TreeTasks(projects, p) = {}
          /\ \/ make_svg_for_tasks(p, "tasks.svg", None, None)
             \/ make_svg_for_resources(p, "resources.svg", None, None))
         => /\ raised' = ""
            /\ files' = files
            /\ \E m \in LOG' : m[1] = "warning"]_vars

\* C10: a render of a project that has children, with the start of the window
\* later than its end, raises ValueError, writes no file, and leaves every
\* cached date of the tasks of the tree unset or equal to the date a
\* resolution of the current inputs from cleared caches gives.
C10_ReversedWindowAborts ==
    [][\A p \in ProjectIds, win \in Windows :
         (/\ Len(projects[p].tasks) # 0
          /\ ReversedWindow(p, win)
          /\ \/ make_svg_for_tasks(p, "tasks.svg", win[1], win[2])
             \/ make_svg_for_resources(p, "resources.svg", win[1], win[2]))
         => /\ raised' = "ValueError"
            /\ files' = files
            /\ \A t \in TreeTasks(projects, p) :
                  \E fresh \in {FreshDates(t)} :
                     /\ tasks'[t]._cache_start_date \in {None, fresh[1]}
                     /\ tasks'[t]._cache_end_date \in {None, fresh[2]}]_vars

-----------------------------------------------------------------------------
(* Properties of the scales *)

\* the last call of a layout function, at the weekly scale, was for a span
\* of N whole weeks, with duration=False for _time_diff
WholeWeeks(function, N) ==
    /\ returned.function = function
    /\ returned.args[1] = DRAW_WITH_WEEKLY_SCALE
    /\ returned.args[3] = returned.args[2] + 7 * N
    /\ function = "_time_diff" => ~returned.args[4]

\* C11: at the weekly scale, for every date start and every N >= 0,
\* _time_diff(week, start, start + N weeks, duration=False) is N and
\* _get_maxx(week, start, start + N weeks) is N too: offset and span length
\* agree
C11_WeekOffsetIsSpan ==
    \A N \in 0..MaxWeeks :
       /\ WholeWeeks("_time_diff", N) => returned.val = N
       /\ WholeWeeks("_get_maxx", N) => returned.val = N

C11_Witness ==
    /\ WholeWeeks("_time_diff", MaxWeeks)
    /\ returned.val = MaxWeeks
    /\ weekday(returned.args[2]) = 6

\* the bar of task t was drawn by the last call, for the window given
Drawn(t, start, end) ==
    /\ raised' = ""
    /\ tasks'[t]._cache_start_date <= end
    /\ tasks'[t]._cache_end_date >= start

\* C12: whatever the scale (day, week, month) and the window, a bar drawn
\* by Task.svg lies inside the canvas:
\* 0 <= drawn_x_begin_coord and
\* drawn_x_end_coord <= (_get_maxx(scale, start, end) + 1) * tu_width
C12_BarInsideCanvas ==
    [][\A win \in Spans, scale \in Scales \ {DRAW_WITH_QUATERLY_SCALE} :
         Drawn(1, win[1], win[2])
         => \/ /\ 0 <= tasks'[1].drawn_x_begin_coord
               /\ tasks'[1].drawn_x_end_coord
                     <= _get_maxx(scale, win[1], win[2]) + 1
            \/ ~Call_svg(1, win[1], win[2], scale)]_vars

-----------------------------------------------------------------------------
(* Properties of availability *)

\* date lies in one of the periods vs, both ends included
InPeriod(vs, date) == \E v \in Range(vs) : v[1] <= date /\ date <= v[2]

NoLeave(w) ==
    [w EXCEPT !.res = [r \in DOMAIN w.res |->
                         [w.res[r] EXCEPT !.vacations = <<>>]],
              !.grp = [g \in DOMAIN w.grp |->
                         [w.grp[g] EXCEPT !.vacations = <<>>]]]

\* the dates of task t left by the call that gave r
CachedBy(r, t) ==
    <<r.err, r.tasks[t]._cache_start_date, r.tasks[t]._cache_end_date>>

\* C18: for a Task without dependencies, resolved from cleared caches:
\* with no resource or with two resources or more, start_date() and
\* end_date() are what they are when no resource and no group has any
\* vacation; with one resource, the dates resolved are days on which the
\* resource is available.
C18_VacationsOfOneResourceOnly ==
    [][\A t \in TaskIds :
         (/\ tasks[t].kind = "Task"
          /\ tasks[t].depends_on_type = "NoneType"
          /\ tasks[t]._cache_start_date = None
          /\ tasks[t]._cache_end_date = None)
         => /\ (Len(tasks[t].resources) # 1 /\ Call_start_date(t))
               => CachedBy([err |-> raised', tasks |-> tasks'], t)
                     = CachedBy(start_date(NoLeave(World), t, {}, {}), t)
            /\ (Len(tasks[t].resources) # 1 /\ Call_end_date(t))
               => CachedBy([err |-> raised', tasks |-> tasks'], t)
                     = CachedBy(end_date(NoLeave(World), t, {}, {}), t)
            /\ (Len(tasks[t].resources) = 1
                /\ (Call_start_date(t) \/ Call_end_date(t)))
               => \A d \in {tasks'[t]._cache_start_date,
                            tasks'[t]._cache_end_date} \ {None} :
                     is_available(World, tasks[t].resources[1], d)]_vars

-----------------------------------------------------------------------------
(* Properties of the span of a task *)

\* the last day up to d that is no non-working day of task t
LastWorkedDay(t, d) ==
    CHOOSE x \in (d - 7 * MaxWeeks)..d :
       /\ ~non_working_day(World, t, x)
       /\ \A y \in (x + 1)..d : non_working_day(World, t, y)

WorkedDays(t, from, to) ==
    {y \in from..to : ~non_working_day(World, t, y)}

\* the day reached by counting n working days of task t forward from day d
CountedForward(t, d, n) ==
    CHOOSE x \in d..(d + 7 * MaxWeeks) :
       /\ ~non_working_day(World, t, x)
       /\ Cardinality(WorkedDays(t, d, x)) >= n
       /\ \A y \in d..(x - 1) :
             \/ non_working_day(World, t, y)
             \/ Cardinality(WorkedDays(t, d, y)) < n

\* end_date() of task t, a Task with stop and duration and no start, has
\* just returned a date
StopDurationEnd(t) ==
    /\ tasks[t].kind = "Task"
    /\ tasks[t].start = None
    /\ tasks[t].stop # None /\ tasks[t].duration # None
    /\ tasks[t]._cache_end_date = None
    /\ Call_end_date(t)
    /\ raised' = ""

\* C21 as stated: the end of a task with stop and duration and no start is
\* the last working day up to stop when that day is not before
\* start_date(); when it is before start_date(), it is the day reached by
\* counting duration working days forward from start_date(), with a
\* warning logged.
C21_EndSlipsOnlyBeforeStart ==
    [][StopDurationEnd(2)
       => IF LastWorkedDay(2, tasks[2].stop) >= tasks'[2]._cache_start_date
          THEN tasks'[2]._cache_end_date = LastWorkedDay(2, tasks[2].stop)
          ELSE /\ tasks'[2]._cache_end_date
                     = CountedForward(2, tasks'[2]._cache_start_date,
                                      tasks[2].duration)
               /\ Warn("end_changed", 2) \in LOG']_vars

\* C21, amended: the end of a task with stop and duration and no start is
\* the last working day up to stop when that day is after start_date();
\* when it is on or before start_date(), it is the day reached by counting
\* duration working days forward from start_date(), with a warning logged.
C21_EndSlipsUpToStart ==
    [][StopDurationEnd(2)
       => IF LastWorkedDay(2, tasks[2].stop) > tasks'[2]._cache_start_date
          THEN tasks'[2]._cache_end_date = LastWorkedDay(2, tasks[2].stop)
          ELSE /\ tasks'[2]._cache_end_date
                     = CountedForward(2, tasks'[2]._cache_start_date,
                                      tasks[2].duration)
               /\ Warn("end_changed", 2) \in LOG']_vars

\* a dependency has pushed the start of task 2 to the last working day up
\* to its stop, and its end has slipped after the stop
C21_Witness ==
    /\ raised = ""
    /\ tasks[2].kind = "Task" /\ tasks[2].start = None
    /\ tasks[2].stop # None /\ tasks[2].duration # None
    /\ tasks[2]._cache_start_date = LastWorkedDay(2, tasks[2].stop)
    /\ tasks[2]._cache_end_date # None
    /\ tasks[2]._cache_end_date > tasks[2].stop
    /\ Warn("end_changed", 2) \in LOG

-----------------------------------------------------------------------------
(* Properties of the bars *)

Coordinates(T, t) ==
    <<T[t].drawn_x_begin_coord, T[t].drawn_x_end_coord, T[t].drawn_y_coord>>

-----------------------------------------------------------------------------
(* Properties of the reset that starts a layout pass *)

\* task t has no cached date and no layout coordinate in T
Cleared(T, t) ==
    /\ T[t]._cache_start_date = None /\ T[t]._cache_end_date = None
    /\ Coordinates(T, t) = <<None, None, None>>

\* start and end of task t as a resolution gives them once the caches of
\* the tasks of the tree of project p are cleared, the others being kept
TreeFreshDates(p, t) ==
    LET w0 == [World EXCEPT !.tasks =
                 [u \in TaskIds |->
                    IF u \in TreeTasks(projects, p)
                    THEN [tasks[u] EXCEPT !._cache_start_date = None,
                                          !._cache_end_date = None]
                    ELSE tasks[u]]]
        r1 == start_date(w0, t, {}, {})
        r2 == end_date([w0 EXCEPT !.tasks = r1.tasks], t, {}, {})
    IN <<r2.tasks[t]._cache_start_date, r2.tasks[t]._cache_end_date>>

\* the dates a layout pass of project p leaves: no date of a task of the
\* tree is one that was there before the pass, and a task outside the tree
\* has its coordinates and every date it had
DatesAfterLayoutPass(p) ==
    \A t \in Existing :
       \E fresh \in {TreeFreshDates(p, t)} :
          IF t \in TreeTasks(projects, p)
          THEN /\ tasks'[t]._cache_start_date \in {None, fresh[1]}
               /\ tasks'[t]._cache_end_date \in {None, fresh[2]}
          ELSE /\ Coordinates(tasks', t) = Coordinates(tasks, t)
               /\ tasks'[t]._cache_start_date
                     = IF tasks[t]._cache_start_date = None
                          /\ tasks'[t]._cache_start_date # None
                       THEN fresh[1] ELSE tasks[t]._cache_start_date
               /\ tasks'[t]._cache_end_date
                     = IF tasks[t]._cache_end_date = None
                          /\ tasks'[t]._cache_end_date # None
                       THEN fresh[2] ELSE tasks[t]._cache_end_date

\* the coordinates a layout pass of project p that ends at the day end
\* leaves: a task of the tree that starts later has none
CoordinatesAfterLayoutPass(p, end) ==
    (raised' = "" /\ end # None)
    => \A t \in TreeTasks(projects, p) :
          TreeFreshDates(p, t)[1] > end
          => Coordinates(tasks', t) = <<None, None, None>>

\* the step changes what a _reset_coord of project p changes at most
OnlyCaches(p) ==
    /\ projects' = ResetCounts(projects, p)
    /\ VACATIONS' = VACATIONS
    /\ \A t \in TaskIds : Inputs(tasks'[t]) = Inputs(tasks[t])

\* a layout pass of project p in the window win
LayoutPass(p, win) ==
    \/ make_svg_for_tasks(p, "tasks.svg", win[1], win[2])
    \/ make_svg_for_resources(p, "resources.svg", win[1], win[2])

-----------------------------------------------------------------------------
(* Properties of the dates of one task *)

\* task t is a Task defined by two of start, stop and duration, its start
\* not after its stop
ValidPair(t) ==
    /\ tasks[t].kind = "Task"
    /\ \/ /\ tasks[t].start # None /\ tasks[t].stop # None
          /\ tasks[t].duration = None
          /\ tasks[t].start <= tasks[t].stop
       \/ /\ tasks[t].start # None /\ tasks[t].duration # None
          /\ tasks[t].stop = None
       \/ /\ tasks[t].stop # None /\ tasks[t].duration # None
          /\ tasks[t].start = None

\* task t is a Task defined by a valid pair, or by a duration and a list of
\* dependencies
ValidInputs(t) ==
    \/ ValidPair(t)
    \/ /\ tasks[t].kind = "Task"
       /\ tasks[t].duration # None
       /\ tasks[t].start = None /\ tasks[t].stop = None
       /\ tasks[t].depends_on_type = "list"
       /\ Len(tasks[t].depends_on) > 0

\* C24: when start_date() and end_date() of a task of valid inputs (start
\* and stop, start and duration, stop and duration, duration and
\* dependencies) are resolved from cleared caches and both are dates,
\* end_date() is on or after start_date(), whatever the calendar.
C24_EndNotBeforeStart ==
    [][\A t \in TaskIds :
         (/\ Unresolved
          /\ ValidInputs(t)
          /\ tasks'[t]._cache_start_date # None
          /\ tasks'[t]._cache_end_date # None)
         => tasks'[t]._cache_end_date >= tasks'[t]._cache_start_date]_vars

\* start_date() and end_date() of task t, resolved from cleared caches,
\* are dates
Resolvable(t) == None \notin Range(FreshDates(t))

\* C25: when start_date() and end_date() return dates for a task defined by
\* a valid pair of start, stop and duration, and for the dependency given,
\* add_depends raises nothing, and after it and a _reset_coord they still
\* return dates.
C25_AddDependsKeepsResolvable ==
    [][\A single \in BOOLEAN :
         (/\ ValidPair(2)
          /\ Resolvable(2) /\ Resolvable(1)
          /\ add_depends(2, <<1>>, single))
         => /\ raised' = ""
            /\ Resolvable(2)']_vars

\* C26: when start_date() and end_date() of a Task with a duration of 1 or
\* more are resolved from cleared caches and both are dates, the inclusive
\* range [start_date(), end_date()] holds at least duration working days
\* of the task, also when a dependency pushes the start of a task with stop
\* and duration after the start found by walking back from the stop.
C26_SpanHoldsAtLeastDuration ==
    [][\A t \in TaskIds :
         (/\ Unresolved
          /\ tasks[t].kind = "Task"
          /\ tasks[t].duration # None /\ tasks[t].duration >= 1
          /\ tasks'[t]._cache_start_date # None
          /\ tasks'[t]._cache_end_date # None)
         => WorkingDays(World, t, tasks'[t]._cache_start_date,
                        tasks'[t]._cache_end_date) >= tasks[t].duration]_vars

\* C27: a date that start_date() or end_date() of a task resolves is no
\* non-working day of the task in the calendar of the resolution:
\* Task.non_working_day is false on it.
C27_ResolvedOnWorkingDay ==
    [][\A t \in TaskIds :
         /\ (/\ tasks[t]._cache_start_date = None
             /\ tasks'[t]._cache_start_date # None)
            => ~non_working_day(World, t, tasks'[t]._cache_start_date)
         /\ (/\ tasks[t]._cache_end_date = None
             /\ tasks'[t]._cache_end_date # None)
            => ~non_working_day(World, t, tasks'[t]._cache_end_date)]_vars

-----------------------------------------------------------------------------
(* Properties of the counts *)

\* C28: Project.nb_elements() returns the number of the Tasks and
\* Milestones that the tree of the project holds, whatever add_task and
\* nb_elements calls, on the project or on a sub-project, came before.
C28_CountIsNeverStale ==
    [][\A p \in ProjectIds :
         Call_nb_elements(p)
         => returned'.val = Cardinality(TreeTasks(projects, p))]_vars

-----------------------------------------------------------------------------
(* Properties of the dates of a chart *)

\* start and end of task t as start_date() and end_date() give them now,
\* with the caches as they are
DatesNow(t) ==
    LET r1 == start_date(World, t, {}, {})
        r2 == end_date([World EXCEPT !.tasks = r1.tasks], t, {}, {})
    IN <<r2.tasks[t]._cache_start_date, r2.tasks[t]._cache_end_date>>

\* C29: after Project._reset_coord() of a project, whatever edits of the
\* calendar and of the dependencies came before, start_date() and
\* end_date() of every task of the tree of the project give the dates that
\* a resolution with all caches cleared gives in the current state, also
\* when a task of the tree depends on a task outside the tree.
C29_FreshAfterProjectReset ==
    [][\A p \in ProjectIds :
         Project_reset_coord(p)
         => \A t \in TreeTasks(projects, p) :
               DatesNow(t)' = FreshDates(t)']_vars

-----------------------------------------------------------------------------
(* Properties of termination *)

\* C30: with a working weekday in the calendar, no call of start_date(),
\* end_date() or add_depends ends by a recursion without end
\* (RecursionError) or by a walk over the days without end (OverflowError,
\* at the last date that datetime.date holds), whatever the dependencies,
\* cycles included.
C30_ResolutionTerminates ==
    NOT_WORKED_DAYS # WeekDays
    => raised \notin {"RecursionError", "OverflowError"}

====
